---- MODULE Spec2Model ----
(***************************************************************************)
(* The in-memory map-editing model of FantasyMapCrafter: the EditorState   *)
(* kept by EditorProvider (client/src/contexts/EditorContext.tsx), the     *)
(* layer constructors of lib/mapTypes and the paint tools of               *)
(* lib/canvasUtils.                                                        *)
(*                                                                         *)
(* Arrays of the source are functions over 0..n-1; the layer list is a     *)
(* sequence, so the layer at the source's index i is layers[i + 1].        *)
(***************************************************************************)
EXTENDS Integers, Sequences, FiniteSets, TLC

(***************************************************************************)
(* Bounds of the model.                                                    *)
(***************************************************************************)
MaxW == 3
MaxH == 2
MaxLayers == 2
MaxOps == 4
MaxPainted == 2
MaxStack == 12
MaxCoord == 11
MaxTileSize == 3

Widths == 1..MaxW
Heights == 1..MaxH
\* target cells handed to the tools: the map and the ring around it
XArgs == -1..MaxW
YArgs == -1..MaxH
\* layer indices handed to the layer actions, out-of-range ones included
IndexArgs == -1..MaxLayers
\* the cells of the largest map
XCells == 0..(MaxW - 1)
YCells == 0..(MaxH - 1)
LayerIds == 1..MaxLayers
\* Math.random().toString(36).substr(2, 9): layer ids are opaque and only
\* compared, so a new layer takes the least id that no layer of ls has
FreshId(ls) ==
  CHOOSE id \in LayerIds :
    /\ \A i \in 1..Len(ls) : ls[i].id # id
    /\ \A other \in LayerIds :
         (\A i \in 1..Len(ls) : ls[i].id # other) => id <= other

(***************************************************************************)
(* Values: DrawingTool, TilePosition | null, string | null.                *)
(***************************************************************************)
Tools == {"smallBrush", "largeBrush", "fill", "eraser"}

\* the TilePosition values a tileset offers; NoTile stands for null
TileRefs == {[tilesetId |-> 1, x |-> 0, y |-> 0], [tilesetId |-> 1, x |-> 2, y |-> 3]}
NoTile == [tilesetId |-> -1, x |-> -1, y |-> -1]

\* the empty cell (null): not a string of characters
NULL == <<"null">>
\* selectedTileset: null; the ids of tilesets are serial, from 1
NoTileset == 0
\* cursorPosition: null
NoPosition == [null |-> TRUE]

DigitChars == <<"0", "1", "2", "3", "4", "5", "6", "7", "8", "9">>

\* String(n) of an integer, as its sequence of characters
RECURSIVE NumberToString(_)
NumberToString(n) ==
  IF n < 0 THEN <<"-">> \o NumberToString(-n)
  ELSE IF n < 10 THEN <<DigitChars[n + 1]>>
  ELSE NumberToString(n \div 10) \o <<DigitChars[(n % 10) + 1]>>

\* `${tile.tilesetId},${tile.x},${tile.y}`
encodeTile(tile) ==
  NumberToString(tile.tilesetId) \o <<",">> \o NumberToString(tile.x)
    \o <<",">> \o NumberToString(tile.y)

\* tile.split(','), with the part read so far
RECURSIVE splitComma(_, _)
splitComma(str, part) ==
  IF str = <<>> THEN <<part>>
  ELSE IF Head(str) = "," THEN <<part>> \o splitComma(Tail(str), <<>>)
  ELSE splitComma(Tail(str), Append(part, Head(str)))

IsDigits(str) ==
  \A i \in 1..Len(str) : \E d \in 1..Len(DigitChars) : str[i] = DigitChars[d]

RECURSIVE DigitsToNumber(_, _)
DigitsToNumber(str, value) ==
  IF str = <<>> THEN value
  ELSE DigitsToNumber(Tail(str),
         10 * value + (CHOOSE d \in 0..9 : DigitChars[d + 1] = Head(str)))

NaN == [nan |-> TRUE]

\* Number(str) of a string of decimal digits with or without a sign; the
\* empty string is 0 and anything else is NaN
StringToNumber(str) ==
  IF str = <<>> THEN 0
  ELSE IF Head(str) = "-"
  THEN IF Tail(str) # <<>> /\ IsDigits(Tail(str))
       THEN 0 - DigitsToNumber(Tail(str), 0) ELSE NaN
  ELSE IF IsDigits(str) THEN DigitsToNumber(str, 0) ELSE NaN

\* the element of parts at index i, undefined past the end
PartAt(parts, i) == IF i < Len(parts) THEN StringToNumber(parts[i + 1]) ELSE NaN

\* mutant: the destructuring names tileY before tileX
decodeTileSwapped(str) ==
  LET parts == splitComma(str, <<>>) IN
    [tilesetId |-> PartAt(parts, 0), x |-> PartAt(parts, 2), y |-> PartAt(parts, 1)]

\* const [tilesetId, tileX, tileY] = tile.split(',').map(Number) and the
\* TilePosition { tilesetId, x: tileX, y: tileY } built from them
decodeTile(str) ==
  LET parts == splitComma(str, <<>>) IN
    [tilesetId |-> PartAt(parts, 0), x |-> PartAt(parts, 1), y |-> PartAt(parts, 2)]

(***************************************************************************)
(* The state.                                                              *)
(***************************************************************************)
VARIABLES
  mapType,        \* state.mapType: 'grid' | 'hex'
  tileSize,       \* state.tileSize, pixels
  mapSize,        \* state.mapSize: [width, height]
  layers,         \* state.layers: sequence of [id, name, visible, tiles]
  currentLayer,   \* state.currentLayer (0-based)
  selectedTool,   \* state.selectedTool
  selectedTile,   \* state.selectedTile, NoTile for null
  multiTileSelection, \* state.multiTileSelection: [width, height, tiles]
  last,           \* the call that produced this state and whether it threw
  ops,            \* number of calls made so far
  pc,             \* position of the fill being stepped through
  fill,           \* its arguments: x, y, targetValue, replacementValue
  newTiles,       \* its working copy of the active layer's tiles
  queue,          \* work queue of the queue-based fill
  stack,          \* call stack of the recursive floodFill
  writes,         \* how often each cell was assigned replacementValue
  heap,           \* the arrays in memory, where a specification tracks them
  drawn,          \* the tiles the last drawLayer handed to drawTile
  selectedTileset,     \* state.selectedTileset: number | null
  cursorPosition,      \* state.cursorPosition: [x, y] | null
  isDragging,          \* Canvas: the dragging flag
  pointer,             \* Canvas: the last pointer event handled
  tilesets,            \* EditorProvider: the tileset catalog
  loadedTilesetImages, \* EditorProvider: ids of the tilesets whose image loaded
  isLoading,           \* EditorProvider: the loading flag
  catalog,             \* position of the loadTilesets effect and its data
  load                 \* position of the loadMap call and the tilesets it closed over

vars == <<mapType, tileSize, mapSize, layers, currentLayer, selectedTool, selectedTile,
          multiTileSelection, last, ops, pc, fill, newTiles, queue, stack, writes,
          heap, drawn, selectedTileset, cursorPosition, isDragging, pointer, tilesets,
          loadedTilesetImages, isLoading, catalog, load>>
editorVars == <<mapType, tileSize, mapSize, layers, currentLayer, selectedTool, selectedTile,
                multiTileSelection>>
fillVars == <<pc, fill, newTiles, queue, stack, writes>>
\* the Canvas component and the asynchronous loads of EditorProvider
canvasVars == <<isDragging, pointer>>
providerVars == <<tilesets, loadedTilesetImages, isLoading, catalog, load>>
\* what the map, layer, tool and drawing actions leave as it is
outsideVars == <<heap, drawn, selectedTileset, cursorPosition, canvasVars, providerVars>>

Call(op, a, b) == [op |-> op, a |-> a, b |-> b, threw |-> FALSE]
Threw(op, a, b) == [op |-> op, a |-> a, b |-> b, threw |-> TRUE]

InBounds(x, y, size) ==
  ~(x < 0 \/ y < 0 \/ x >= size.width \/ y >= size.height)

ValidIndex(i, ls) == i >= 0 /\ i < Len(ls)

(***************************************************************************)
(* lib/mapTypes                                                            *)
(***************************************************************************)
\* mutant: width and height exchanged
emptyTilesTransposed(width, height) ==
  [y \in 0..(width - 1) |-> [x \in 0..(height - 1) |-> NULL]]

emptyTiles(width, height) ==
  [y \in 0..(height - 1) |-> [x \in 0..(width - 1) |-> NULL]]

\* mutant: the layer starts hidden
createEmptyLayerHidden(width, height, name, id) ==
  [id |-> id, name |-> name, visible |-> FALSE, tiles |-> emptyTiles(width, height)]

createEmptyLayer(width, height, name, id) ==
  [id |-> id, name |-> name, visible |-> TRUE, tiles |-> emptyTiles(width, height)]

MapTypes == {"grid", "hex"}
\* tileSize: number = 16
DefaultTileSize == 16
\* the tile sizes the size selector offers
TileSizes == {DefaultTileSize, 2 * DefaultTileSize}

\* the fields of createInitialEditorState that the editor actions read
createInitialEditorState(type, size, width, height, id) ==
  [mapType |-> type,
   tileSize |-> size,
   mapSize |-> [width |-> width, height |-> height],
   selectedTool |-> "smallBrush",
   currentLayer |-> 0,
   layers |-> <<createEmptyLayer(width, height, <<"Layer", 1, "(Base)">>, id)>>,
   selectedTileset |-> NoTileset,
   selectedTile |-> NoTile,
   multiTileSelection |-> [width |-> 1, height |-> 1, tiles |-> <<<<NoTile>>>>],
   cursorPosition |-> NoPosition]

\* no array is tracked
NoHeap == [cells |-> <<>>, tiles |-> <<>>]

\* useState(false) of Canvas, no pointer event handled yet
IdleCanvas ==
  /\ isDragging = FALSE
  /\ pointer = [event |-> "none", x |-> 0, y |-> 0, n |-> 0]

NoRequest == [pc |-> "idle", tilesets |-> <<>>, map |-> NULL]

\* useState([]), useState(new Map()), useState(true) of EditorProvider, with
\* the fetch of the loadTilesets effect in flight and no loadMap called
IdleProvider ==
  /\ tilesets = <<>>
  /\ loadedTilesetImages = {}
  /\ isLoading = TRUE
  /\ catalog = [pc |-> "fetching", data |-> <<>>]
  /\ load = NoRequest

\* the provider after the loadTilesets effect found no tileset, the state
\* the inputs of the map, layer and drawing calls are drawn in
SettledProvider ==
  /\ tilesets = <<>>
  /\ loadedTilesetImages = {}
  /\ isLoading = FALSE
  /\ catalog = [pc |-> "done", data |-> <<>>]
  /\ load = NoRequest

\* selectedTileset: null and cursorPosition: null of createInitialEditorState
InputOutside ==
  /\ selectedTileset = NoTileset
  /\ cursorPosition = NoPosition
  /\ IdleCanvas
  /\ SettledProvider

IdleFill ==
  /\ pc = "idle"
  /\ fill = [x |-> 0, y |-> 0, targetValue |-> NULL, replacementValue |-> NULL]
  /\ newTiles = emptyTiles(1, 1)
  /\ queue = <<>>
  /\ stack = <<>>
  /\ writes = [c \in {} |-> 0]

\* useState(createInitialEditorState()); the default 64 x 64 map is scaled
\* to the bounds
Init ==
  /\ LET s == createInitialEditorState("grid", DefaultTileSize, MaxW, MaxH,
                                        FreshId(<<>>)) IN
         /\ mapType = s.mapType
         /\ tileSize = s.tileSize
         /\ mapSize = s.mapSize
         /\ layers = s.layers
         /\ currentLayer = s.currentLayer
         /\ selectedTool = s.selectedTool
         /\ selectedTile = s.selectedTile
         /\ multiTileSelection = s.multiTileSelection
         /\ selectedTileset = s.selectedTileset
         /\ cursorPosition = s.cursorPosition
  /\ last = Call("init", 0, 0)
  /\ ops = 0
  /\ IdleFill
  /\ heap = NoHeap
  /\ drawn = {}
  /\ IdleCanvas
  /\ IdleProvider

(***************************************************************************)
(* Map actions                                                             *)
(***************************************************************************)
\* mutant: the old width is read off the number of rows
resizeTilesRowsAsWidth(tiles, width, height) ==
  [y \in 0..(height - 1) |-> [x \in 0..(width - 1) |->
     IF y < Cardinality(DOMAIN tiles) /\ x < Cardinality(DOMAIN tiles)
          /\ x < Cardinality(DOMAIN tiles[0])
     THEN tiles[y][x]
     ELSE NULL]]

\* the new tiles of one layer in setMapSize
resizeTiles(tiles, width, height) ==
  [y \in 0..(height - 1) |-> [x \in 0..(width - 1) |->
     IF y < Cardinality(DOMAIN tiles) /\ x < Cardinality(DOMAIN tiles[0])
     THEN tiles[y][x]
     ELSE NULL]]

setMapSize(width, height) ==
  /\ mapSize' = [width |-> width, height |-> height]
  /\ layers' = [i \in 1..Len(layers) |->
                  [layers[i] EXCEPT !.tiles = resizeTiles(layers[i].tiles, width, height)]]
  /\ last' = Call("setMapSize", width, height)
  /\ UNCHANGED <<currentLayer, selectedTool, selectedTile, multiTileSelection, mapType, tileSize>>
  /\ UNCHANGED fillVars
  /\ UNCHANGED outsideVars

createNewMapAction(type, size, width, height) ==
  /\ LET s == createInitialEditorState(type, size, width, height, FreshId(<<>>)) IN
         /\ mapType' = s.mapType
         /\ tileSize' = s.tileSize
         /\ mapSize' = s.mapSize
         /\ layers' = s.layers
         /\ currentLayer' = s.currentLayer
         /\ selectedTool' = s.selectedTool
         /\ selectedTile' = s.selectedTile
         /\ multiTileSelection' = s.multiTileSelection
         /\ selectedTileset' = s.selectedTileset
         /\ cursorPosition' = s.cursorPosition
  /\ last' = Call("createNewMap", width, height)
  /\ UNCHANGED fillVars
  /\ UNCHANGED <<heap, drawn, canvasVars, providerVars>>

(***************************************************************************)
(* Layer actions                                                           *)
(***************************************************************************)
\* mutant: the name counts the layers before the new one
addLayerNamedByOldCount ==
  /\ Len(layers) < MaxLayers
  /\ layers' = Append(layers,
                 createEmptyLayer(mapSize.width, mapSize.height,
                                  <<"Layer", Len(layers)>>, FreshId(layers)))
  /\ currentLayer' = Len(layers)
  /\ last' = Call("addLayer", 0, 0)
  /\ UNCHANGED <<mapSize, selectedTool, selectedTile, multiTileSelection, mapType, tileSize>>
  /\ UNCHANGED fillVars
  /\ UNCHANGED outsideVars

addLayer ==
  /\ Len(layers) < MaxLayers
  /\ layers' = Append(layers,
                 createEmptyLayer(mapSize.width, mapSize.height,
                                  <<"Layer", Len(layers) + 1>>, FreshId(layers)))
  /\ currentLayer' = Len(layers)
  /\ last' = Call("addLayer", 0, 0)
  /\ UNCHANGED <<mapSize, selectedTool, selectedTile, multiTileSelection, mapType, tileSize>>
  /\ UNCHANGED fillVars
  /\ UNCHANGED outsideVars

\* Array.prototype.splice(index, 1) on a copy of ls
splice1(ls, index) ==
  LET len == Len(ls)
      start == IF index < 0 THEN (IF len + index < 0 THEN 0 ELSE len + index)
               ELSE (IF index > len THEN len ELSE index)
  IN  IF start >= len THEN ls
      ELSE SubSeq(ls, 1, start) \o SubSeq(ls, start + 2, len)

\* mutant: the guard lets the last layer go
removeLayerNoGuard(index) ==
  /\ IF Len(layers) < 1
     THEN UNCHANGED <<layers, currentLayer>>
     ELSE LET newLayers == splice1(layers, index) IN
            /\ layers' = newLayers
            /\ currentLayer' = IF currentLayer >= Len(newLayers)
                               THEN Len(newLayers) - 1
                               ELSE currentLayer
  /\ last' = Call("removeLayer", index, 0)
  /\ UNCHANGED <<mapSize, selectedTool, selectedTile, multiTileSelection, mapType, tileSize>>
  /\ UNCHANGED fillVars
  /\ UNCHANGED outsideVars

\* mutant: the first layer becomes the active one
removeLayerActivatesFirst(index) ==
  /\ IF Len(layers) <= 1
     THEN UNCHANGED <<layers, currentLayer>>
     ELSE /\ layers' = splice1(layers, index)
          /\ currentLayer' = 0
  /\ last' = Call("removeLayer", index, 0)
  /\ UNCHANGED <<mapSize, selectedTool, selectedTile, multiTileSelection, mapType, tileSize>>
  /\ UNCHANGED fillVars
  /\ UNCHANGED outsideVars

removeLayer(index) ==
  /\ IF Len(layers) <= 1
     THEN UNCHANGED <<layers, currentLayer>>
     ELSE LET newLayers == splice1(layers, index) IN
            /\ layers' = newLayers
            /\ currentLayer' = IF currentLayer >= Len(newLayers)
                               THEN Len(newLayers) - 1
                               ELSE currentLayer
  /\ last' = Call("removeLayer", index, 0)
  /\ UNCHANGED <<mapSize, selectedTool, selectedTile, multiTileSelection, mapType, tileSize>>
  /\ UNCHANGED fillVars
  /\ UNCHANGED outsideVars

setCurrentLayer(index) ==
  /\ currentLayer' = index
  /\ last' = Call("setCurrentLayer", index, 0)
  /\ UNCHANGED <<mapSize, layers, selectedTool, selectedTile, multiTileSelection, mapType, tileSize>>
  /\ UNCHANGED fillVars
  /\ UNCHANGED outsideVars

\* an index the array has no element at, or a hole: it reads as undefined
HOLE == [undefined |-> TRUE]

\* newLayers[index] of a copy of ls
ElementAt(ls, index) == IF ValidIndex(index, ls) THEN ls[index + 1] ELSE HOLE

\* { ...obj, [field]: value }; spreading undefined adds no field
SpreadWith(obj, field, value) ==
  LET fields == IF obj = HOLE THEN {} ELSE DOMAIN obj IN
    [f \in fields \cup {field} |-> IF f = field THEN value ELSE obj[f]]

\* newLayers[index] = value on a copy of ls: an index at or past the end
\* lengthens the array, leaving holes below it; a negative index sets a
\* property of the array object and none of its elements
StoreAt(ls, index, value) ==
  IF index < 0 THEN ls
  ELSE [i \in 1..(IF index + 1 > Len(ls) THEN index + 1 ELSE Len(ls)) |->
          IF i = index + 1 THEN value
          ELSE IF i <= Len(ls) THEN ls[i] ELSE HOLE]

\* mutant: the layer is made visible
toggledLayersShows(ls, index) ==
  StoreAt(ls, index, SpreadWith(ElementAt(ls, index), "visible", TRUE))

\* the copy of ls with { ...newLayers[index], visible: !newLayers[index].visible }
\* stored at index; !undefined is true
toggledLayers(ls, index) ==
  LET layer == ElementAt(ls, index) IN
    StoreAt(ls, index,
            SpreadWith(layer, "visible",
                       IF "visible" \in DOMAIN layer THEN ~layer.visible ELSE TRUE))

toggleLayerVisibility(index) ==
  /\ IF ElementAt(layers, index) = HOLE
     THEN \* newLayers[index].visible of undefined: TypeError, no state is set
          /\ last' = Threw("toggleLayerVisibility", index, 0)
          /\ UNCHANGED layers
     ELSE /\ last' = Call("toggleLayerVisibility", index, 0)
          /\ layers' = toggledLayers(layers, index)
  /\ UNCHANGED <<mapSize, currentLayer, selectedTool, selectedTile, multiTileSelection,
                 mapType, tileSize>>
  /\ UNCHANGED fillVars
  /\ UNCHANGED outsideVars

renameLayer(index, name) ==
  /\ layers' = StoreAt(layers, index,
                       SpreadWith(ElementAt(layers, index), "name", name))
  /\ last' = Call("renameLayer", index, name)
  /\ UNCHANGED <<mapSize, currentLayer, selectedTool, selectedTile, multiTileSelection,
                 mapType, tileSize>>
  /\ UNCHANGED fillVars
  /\ UNCHANGED outsideVars

(***************************************************************************)
(* Tool actions                                                            *)
(***************************************************************************)
setSelectedTool(tool) ==
  /\ selectedTool' = tool
  /\ last' = Call("setSelectedTool", 0, 0)
  /\ UNCHANGED <<mapSize, layers, currentLayer, selectedTile, multiTileSelection, mapType, tileSize>>
  /\ UNCHANGED fillVars
  /\ UNCHANGED outsideVars

setSelectedTile(tile) ==
  /\ selectedTile' = tile
  /\ multiTileSelection' = [width |-> 1, height |-> 1, tiles |-> <<<<tile>>>>]
  /\ last' = Call("setSelectedTile", 0, 0)
  /\ UNCHANGED <<mapSize, layers, currentLayer, selectedTool, mapType, tileSize>>
  /\ UNCHANGED fillVars
  /\ UNCHANGED outsideVars

setSelectedTileset(id) ==
  /\ selectedTileset' = id
  /\ selectedTile' = NoTile
  /\ last' = Call("setSelectedTileset", id, 0)
  /\ UNCHANGED <<mapSize, layers, currentLayer, selectedTool, multiTileSelection, mapType,
                 tileSize>>
  /\ UNCHANGED fillVars
  /\ UNCHANGED <<heap, drawn, cursorPosition, canvasVars, providerVars>>

\* tiles.flat(): the rows one after the other
RECURSIVE flat(_)
flat(rows) == IF rows = <<>> THEN <<>> ELSE Head(rows) \o flat(Tail(rows))

\* list.find(tile => tile !== null) || null
RECURSIVE findTile(_)
findTile(list) ==
  IF list = <<>> THEN NoTile
  ELSE IF Head(list) # NoTile THEN Head(list)
  ELSE findTile(Tail(list))

setMultiTileSelection(width, height, tiles) ==
  /\ multiTileSelection' = [width |-> width, height |-> height, tiles |-> tiles]
  /\ selectedTile' = findTile(flat(tiles))
  /\ last' = Call("setMultiTileSelection", width, height)
  /\ UNCHANGED <<mapSize, layers, currentLayer, selectedTool, mapType, tileSize>>
  /\ UNCHANGED fillVars
  /\ UNCHANGED outsideVars

(***************************************************************************)
(* Drawing actions: applyToolAtPosition                                    *)
(***************************************************************************)
\* mutant: the last push repeats cy + 1
PushedNoUp(cx, cy) ==
  <<[x |-> cx + 1, y |-> cy], [x |-> cx - 1, y |-> cy],
    [x |-> cx, y |-> cy + 1], [x |-> cx, y |-> cy + 1]>>

\* the four cells pushed after a cell is filled, in the order of the pushes
Pushed(cx, cy) ==
  <<[x |-> cx + 1, y |-> cy], [x |-> cx - 1, y |-> cy],
    [x |-> cx, y |-> cy + 1], [x |-> cx, y |-> cy - 1]>>

\* mutant: the cell is assigned targetValue
fillIterationWritesTarget(tiles, q, targetValue, replacementValue, size) ==
  LET c == Head(q) IN
    IF ~InBounds(c.x, c.y, size)
    THEN [tiles |-> tiles, queue |-> Tail(q), wrote |-> FALSE]
    ELSE IF tiles[c.y][c.x] # targetValue
    THEN [tiles |-> tiles, queue |-> Tail(q), wrote |-> FALSE]
    ELSE [tiles |-> [tiles EXCEPT ![c.y][c.x] = targetValue],
          queue |-> Tail(q) \o Pushed(c.x, c.y),
          wrote |-> TRUE]

\* one iteration of the while loop of the queue-based fill
fillIteration(tiles, q, targetValue, replacementValue, size) ==
  LET c == Head(q) IN
    IF ~InBounds(c.x, c.y, size)
    THEN [tiles |-> tiles, queue |-> Tail(q), wrote |-> FALSE]
    ELSE IF tiles[c.y][c.x] # targetValue
    THEN [tiles |-> tiles, queue |-> Tail(q), wrote |-> FALSE]
    ELSE [tiles |-> [tiles EXCEPT ![c.y][c.x] = replacementValue],
          queue |-> Tail(q) \o Pushed(c.x, c.y),
          wrote |-> TRUE]

\* while (queue.length > 0) { ... }
RECURSIVE fillLoop(_, _, _, _, _)
fillLoop(tiles, q, targetValue, replacementValue, size) ==
  IF Len(q) = 0 THEN tiles
  ELSE LET r == fillIteration(tiles, q, targetValue, replacementValue, size)
       IN  fillLoop(r.tiles, r.queue, targetValue, replacementValue, size)

\* mutant: the dx loop starts at 0
largeBrushCellsFromZero(x, y, size) ==
  {c \in {[x |-> x + dx, y |-> y + dy] : dx \in 0..1, dy \in -1..1} :
     c.x >= 0 /\ c.y >= 0 /\ c.x < size.width /\ c.y < size.height}

\* the cells of the 3x3 block around (x, y) that pass the bounds check
largeBrushCells(x, y, size) ==
  {c \in {[x |-> x + dx, y |-> y + dy] : dx \in -1..1, dy \in -1..1} :
     c.x >= 0 /\ c.y >= 0 /\ c.x < size.width /\ c.y < size.height}

\* mutant: the rows of the clone are one shared row
smallBrushTilesAliased(tiles, tile, x, y) ==
  IF tile # NoTile
  THEN [cy \in DOMAIN tiles |-> [tiles[cy] EXCEPT ![x] = encodeTile(tile)]]
  ELSE tiles

\* mutant: without a tile the brush stores null
smallBrushTilesNullWrites(tiles, tile, x, y) ==
  IF tile # NoTile
  THEN [tiles EXCEPT ![y][x] = encodeTile(tile)]
  ELSE [tiles EXCEPT ![y][x] = NULL]

\* case 'smallBrush'
smallBrushTiles(tiles, tile, x, y) ==
  IF tile # NoTile
  THEN [tiles EXCEPT ![y][x] = encodeTile(tile)]
  ELSE tiles

\* case 'largeBrush'
largeBrushTiles(tiles, tile, x, y, size) ==
  IF tile # NoTile
  THEN [cy \in DOMAIN tiles |-> [cx \in DOMAIN tiles[cy] |->
          IF [x |-> cx, y |-> cy] \in largeBrushCells(x, y, size)
          THEN encodeTile(tile)
          ELSE tiles[cy][cx]]]
  ELSE tiles

\* case 'fill'; handing back the tiles unchanged stands for return prevState
fillTiles(tiles, tile, x, y, size) ==
  IF tile # NoTile
  THEN IF tiles[y][x] = encodeTile(tile)
       THEN tiles
       ELSE fillLoop(tiles, <<[x |-> x, y |-> y]>>, tiles[y][x],
                     encodeTile(tile), size)
  ELSE tiles

\* mutant: the cell is cleared to the empty string
eraserTilesEmptyString(tiles, x, y) == [tiles EXCEPT ![y][x] = <<>>]

\* case 'eraser'
eraserTiles(tiles, x, y) == [tiles EXCEPT ![y][x] = NULL]

\* mutant: no break after case 'fill', which falls through to 'eraser'
toolTilesFallThrough(tiles, tool, tile, x, y, size) ==
  CASE tool = "smallBrush" -> smallBrushTiles(tiles, tile, x, y)
    [] tool = "largeBrush" -> largeBrushTiles(tiles, tile, x, y, size)
    [] tool = "fill" ->
         IF tile # NoTile /\ tiles[y][x] = encodeTile(tile)
         THEN tiles
         ELSE eraserTiles(fillTiles(tiles, tile, x, y, size), x, y)
    [] tool = "eraser" -> eraserTiles(tiles, x, y)

\* mutant: the eraser asks for a selected tile as the brushes do
toolTilesEraserNeedsTile(tiles, tool, tile, x, y, size) ==
  CASE tool = "smallBrush" -> smallBrushTiles(tiles, tile, x, y)
    [] tool = "largeBrush" -> largeBrushTiles(tiles, tile, x, y, size)
    [] tool = "fill" -> fillTiles(tiles, tile, x, y, size)
    [] tool = "eraser" -> IF tile # NoTile THEN eraserTiles(tiles, x, y) ELSE tiles

\* the switch over prevState.selectedTool, for an in-bounds (x, y):
\* the tiles of the active layer afterwards
toolTiles(tiles, tool, tile, x, y, size) ==
  CASE tool = "smallBrush" -> smallBrushTiles(tiles, tile, x, y)
    [] tool = "largeBrush" -> largeBrushTiles(tiles, tile, x, y, size)
    [] tool = "fill" -> fillTiles(tiles, tile, x, y, size)
    [] tool = "eraser" -> eraserTiles(tiles, x, y)

\* mutant: the tool is applied to the tiles of every layer
applyToolAtPositionAllLayers(x, y) ==
  /\ IF ~ValidIndex(currentLayer, layers)
     THEN /\ last' = Threw("applyToolAtPosition", x, y)
          /\ UNCHANGED layers
     ELSE /\ last' = Call("applyToolAtPosition", x, y)
          /\ IF ~InBounds(x, y, mapSize)
             THEN UNCHANGED layers
             ELSE layers' = [i \in 1..Len(layers) |->
                              [layers[i] EXCEPT !.tiles =
                                 toolTiles(@, selectedTool, selectedTile, x, y, mapSize)]]
  /\ UNCHANGED <<mapSize, currentLayer, selectedTool, selectedTile, multiTileSelection,
                 mapType, tileSize>>
  /\ UNCHANGED fillVars
  /\ UNCHANGED outsideVars

\* the state updater that applyToolAtPosition hands to setState
applyToolUpdater(x, y) ==
  /\ IF ~ValidIndex(currentLayer, layers)
     THEN \* currentLayer.tiles of undefined: TypeError, no state is set
          /\ last' = Threw("applyToolAtPosition", x, y)
          /\ UNCHANGED layers
     ELSE /\ last' = Call("applyToolAtPosition", x, y)
          /\ IF ~InBounds(x, y, mapSize)
             THEN UNCHANGED layers
             ELSE layers' = [layers EXCEPT ![currentLayer + 1].tiles =
                               toolTiles(@, selectedTool, selectedTile, x, y, mapSize)]
  /\ UNCHANGED <<mapSize, currentLayer, selectedTool, selectedTile, multiTileSelection, mapType, tileSize>>
  /\ UNCHANGED fillVars

applyToolAtPosition(x, y) ==
  /\ applyToolUpdater(x, y)
  /\ UNCHANGED outsideVars

(***************************************************************************)
(* lib/canvasUtils: the coordinate transforms.  Canvas coordinates are     *)
(* counted in 1/PixelUnit of a pixel, the unit in which the hexagonal      *)
(* column step tileSize * 1.15 * 0.75 and the offset tileSize / 2 are      *)
(* whole numbers.                                                          *)
(***************************************************************************)
PixelUnit == 80
\* 1.15 * 0.75 = 0.8625 of a tile, in units
HexColumnStep == 69

mapToCanvasPosition(x, y, size, type) ==
  IF type = "grid"
  THEN [x |-> x * size * PixelUnit, y |-> y * size * PixelUnit]
  ELSE LET hexHeight == size * PixelUnit
           yOffset == IF x % 2 = 0 THEN 0 ELSE (size * PixelUnit) \div 2
       IN  [x |-> x * (size * HexColumnStep), y |-> y * hexHeight + yOffset]

\* mutant: Math.round for Math.floor
canvasToMapPositionRounds(x, y, size, type) ==
  IF type = "grid"
  THEN [x |-> (2 * x + size * PixelUnit) \div (2 * size * PixelUnit),
        y |-> (2 * y + size * PixelUnit) \div (2 * size * PixelUnit)]
  ELSE LET hexHeight == size * PixelUnit
           hexColumn == x \div (size * HexColumnStep)
       IN  [x |-> hexColumn,
            y |-> (y - (IF hexColumn % 2 # 0 THEN hexHeight \div 2 ELSE 0)) \div hexHeight]

\* Math.floor is \div, which rounds down
canvasToMapPosition(x, y, size, type) ==
  IF type = "grid"
  THEN [x |-> x \div (size * PixelUnit), y |-> y \div (size * PixelUnit)]
  ELSE LET hexHeight == size * PixelUnit
           hexColumn == x \div (size * HexColumnStep)
       IN  [x |-> hexColumn,
            y |-> (y - (IF hexColumn % 2 # 0 THEN hexHeight \div 2 ELSE 0)) \div hexHeight]

(***************************************************************************)
(* Canvas: the pointer handlers.  x and y are the canvas coordinates       *)
(* (e.clientX - rect.left) * scaleX and (e.clientY - rect.top) * scaleY;   *)
(* what the handlers paint on the canvas is not part of the state.         *)
(***************************************************************************)
PointerEvent(event, x, y) == [event |-> event, x |-> x, y |-> y, n |-> pointer.n + 1]

handleMouseDown(x, y) ==
  /\ isDragging' = TRUE
  /\ pointer' = PointerEvent("down", x, y)
  /\ \E c \in {canvasToMapPosition(x, y, tileSize, mapType)} :
       applyToolUpdater(c.x, c.y)
  /\ UNCHANGED <<heap, drawn, selectedTileset, cursorPosition, providerVars>>

\* mutant: the tool is applied whether or not the flag is set
handleMouseMoveApplies(x, y) ==
  /\ pointer' = PointerEvent("move", x, y)
  /\ \E c \in {canvasToMapPosition(x, y, tileSize, mapType)} :
       /\ cursorPosition' = c
       /\ applyToolUpdater(c.x, c.y)
  /\ UNCHANGED <<heap, drawn, selectedTileset, isDragging, providerVars>>

handleMouseMove(x, y) ==
  /\ pointer' = PointerEvent("move", x, y)
  /\ \E c \in {canvasToMapPosition(x, y, tileSize, mapType)} :
       /\ cursorPosition' = c
       /\ IF isDragging
          THEN applyToolUpdater(c.x, c.y)
          ELSE UNCHANGED <<editorVars, last, fillVars>>
  /\ UNCHANGED <<heap, drawn, selectedTileset, isDragging, providerVars>>

handleMouseUp ==
  /\ isDragging' = FALSE
  /\ pointer' = PointerEvent("up", 0, 0)
  /\ UNCHANGED <<editorVars, last, fillVars>>
  /\ UNCHANGED <<heap, drawn, selectedTileset, cursorPosition, providerVars>>

handleMouseLeave ==
  /\ isDragging' = FALSE
  /\ pointer' = PointerEvent("leave", 0, 0)
  /\ cursorPosition' = [x |-> 0 - 1, y |-> 0 - 1]
  /\ UNCHANGED <<editorVars, last, fillVars>>
  /\ UNCHANGED <<heap, drawn, selectedTileset, providerVars>>

(***************************************************************************)
(* The editor: at most MaxOps calls from the state after construction.     *)
(***************************************************************************)
Counted(A) == ops < MaxOps /\ ops' = ops + 1 /\ A

Next ==
  \/ \E w \in Widths, h \in Heights : Counted(setMapSize(w, h))
  \/ \E w \in Widths, h \in Heights : Counted(createNewMapAction("grid", DefaultTileSize, w, h))
  \/ Counted(addLayer)
  \/ \E i \in IndexArgs : Counted(removeLayer(i))
  \/ \E i \in IndexArgs : Counted(setCurrentLayer(i))
  \/ \E t \in Tools : Counted(setSelectedTool(t))
  \/ \E t \in TileRefs \cup {NoTile} : Counted(setSelectedTile(t))
  \/ \E x \in XArgs, y \in YArgs : Counted(applyToolAtPosition(x, y))

Spec == Init /\ [][Next]_vars

\* the calls that create, resize and paint maps and add and remove layers
NextMapOps ==
  \/ \E w \in Widths, h \in Heights : Counted(setMapSize(w, h))
  \/ \E w \in Widths, h \in Heights : Counted(createNewMapAction("grid", DefaultTileSize, w, h))
  \/ Counted(addLayer)
  \/ \E i \in IndexArgs : Counted(removeLayer(i))
  \/ \E t \in Tools : Counted(setSelectedTool(t))
  \/ \E t \in TileRefs \cup {NoTile} : Counted(setSelectedTile(t))
  \/ \E x \in XArgs, y \in YArgs : Counted(applyToolAtPosition(x, y))

SpecMapOps == Init /\ [][NextMapOps]_vars

(***************************************************************************)
(* One call on an editor state drawn from the states the editor reaches:   *)
(* any map size, one to MaxLayers layers named as the constructors name    *)
(* them, at most MaxPainted painted cells in one of the layers.            *)
(***************************************************************************)
\* layers 1..n as createInitialEditorState and addLayer leave them
RECURSIVE FreshLayers(_, _, _)
FreshLayers(width, height, n) ==
  IF n = 1
  THEN <<createEmptyLayer(width, height, <<"Layer", 1, "(Base)">>, FreshId(<<>>))>>
  ELSE LET ls == FreshLayers(width, height, n - 1) IN
         Append(ls, createEmptyLayer(width, height, <<"Layer", n>>, FreshId(ls)))

\* the layer lists reached from ls by painting k more cells of layer i, one
\* small-brush stroke at a time
RECURSIVE PaintedLayers(_, _, _)
PaintedLayers(ls, i, k) ==
  IF k = 0 THEN {ls}
  ELSE LET prev == PaintedLayers(ls, i, k - 1) IN
         prev \cup
         {[l EXCEPT ![i].tiles[y][x] = encodeTile(t)] :
            l \in prev,
            y \in DOMAIN ls[1].tiles, x \in DOMAIN ls[1].tiles[0], t \in TileRefs}

\* the fields the drawn input shares with the constructor's state
InputDefaults ==
  /\ mapType = "grid"
  /\ tileSize = DefaultTileSize
  /\ multiTileSelection = [width |-> 1, height |-> 1, tiles |-> <<<<selectedTile>>>>]
  /\ last = Call("input", 0, 0)
  /\ ops = 0
  /\ IdleFill

\* a map about to be resized: the tool and tile are the constructor's
InputResize ==
  /\ \E w \in Widths, h \in Heights, n \in 1..MaxLayers, i \in 1..MaxLayers :
       /\ i <= n
       /\ mapSize = [width |-> w, height |-> h]
       /\ layers \in PaintedLayers(FreshLayers(w, h, n), i, MaxPainted)
  /\ currentLayer = 0
  /\ selectedTool = "smallBrush"
  /\ selectedTile = NoTile
  /\ InputDefaults
  /\ heap = NoHeap
  /\ drawn = {}
  /\ InputOutside

\* a map about to be painted with one of the given tools and one of the
\* given tiles selected; the painted cells are in the active layer
InputEditor(tools, tiles) ==
  /\ \E w \in Widths, h \in Heights, n \in 1..MaxLayers, i \in 1..MaxLayers :
       /\ i <= n
       /\ mapSize = [width |-> w, height |-> h]
       /\ layers \in PaintedLayers(FreshLayers(w, h, n), i, MaxPainted)
       /\ currentLayer = i - 1
  /\ selectedTool \in tools
  /\ selectedTile \in tiles
  /\ InputDefaults

InputPaint(tools, tiles) ==
  InputEditor(tools, tiles) /\ heap = NoHeap /\ drawn = {} /\ InputOutside

\* a whole editor state about to be painted: any tool, one of the given
\* tiles, map types and tile sizes, any layer active and one cell painted
\* in any one layer
InputWhole(tiles, types, sizes) ==
  /\ \E w \in Widths, h \in Heights, n \in 1..MaxLayers, i \in 1..MaxLayers :
       /\ i <= n
       /\ mapSize = [width |-> w, height |-> h]
       /\ layers \in PaintedLayers(FreshLayers(w, h, n), i, 1)
  /\ currentLayer \in 0..(Len(layers) - 1)
  /\ selectedTool \in Tools
  /\ selectedTile \in tiles
  /\ mapType \in types
  /\ tileSize \in sizes
  /\ multiTileSelection = [width |-> 1, height |-> 1, tiles |-> <<<<selectedTile>>>>]
  /\ last = Call("input", 0, 0)
  /\ ops = 0
  /\ IdleFill

Once(A) == ops = 0 /\ ops' = 1 /\ A

\* a drag that stays on its cell: handleMouseDown applies the tool and each
\* handleMouseMove inside the same cell applies it again
Again(x, y) ==
  /\ ops = 1
  /\ last = Call("applyToolAtPosition", x, y)
  /\ ops' = 2
  /\ applyToolAtPosition(x, y)

NextResize == \E w \in Widths, h \in Heights : Once(setMapSize(w, h))

SpecResize == InputResize /\ [][NextResize]_vars

\* the tile a brush or a fill is drawn with; the painted cells hold this tile or the other
FillRefs == {[tilesetId |-> 1, x |-> 2, y |-> 3]}

NextBrush == \E x \in XArgs, y \in YArgs : Once(applyToolAtPosition(x, y))

InputBrush == InputPaint({"smallBrush", "largeBrush"}, FillRefs)

SpecBrush == InputBrush /\ [][NextBrush]_vars

NextFillCall ==
  \/ \E x \in XCells, y \in YCells : Once(applyToolAtPosition(x, y))
  \/ \E x \in XCells, y \in YCells : Again(x, y)

InputFillCall == InputPaint({"fill"}, FillRefs)

SpecFillCall == InputFillCall /\ [][NextFillCall]_vars

\* the eraser, with a tile selected or none
InputEraser == InputPaint({"eraser"}, FillRefs \cup {NoTile})

NextEraser ==
  \/ \E x \in XCells, y \in YCells : Once(applyToolAtPosition(x, y))
  \/ \E x \in XCells, y \in YCells : Again(x, y)

SpecEraser == InputEraser /\ [][NextEraser]_vars

\* any tool with no tile selected
InputNoTile == InputPaint(Tools, {NoTile})

NextNoTile == \E x \in XCells, y \in YCells : Once(applyToolAtPosition(x, y))

SpecNoTile == InputNoTile /\ [][NextNoTile]_vars

(***************************************************************************)
(* applyToolAtPosition with the arrays it reads, allocates and assigns.    *)
(* heap.cells[r] is the array at reference r: a row of cell values, or a   *)
(* tiles array of references to its rows.  heap.tiles[i] is the reference  *)
(* held by layers[i].tiles.                                                *)
(***************************************************************************)
\* the rows and the tiles array of every layer of ls, allocated in turn
RECURSIVE HeapOfFrom(_, _, _)
HeapOfFrom(cells, refs, ls) ==
  IF ls = <<>> THEN [cells |-> cells, tiles |-> refs]
  ELSE LET t == Head(ls).tiles
           n == Len(cells)
           h == Cardinality(DOMAIN t)
       IN  HeapOfFrom(cells \o [k \in 1..h |-> t[k - 1]]
                            \o <<[y \in 0..(h - 1) |-> n + y + 1]>>,
                      Append(refs, n + h + 1), Tail(ls))

HeapOf(ls) == HeapOfFrom(<<>>, <<>>, ls)

\* the (string | null)[][] read through the tiles array at ref
TilesAt(cells, ref) == [y \in DOMAIN cells[ref] |-> cells[cells[ref][y]]]

\* mutant: [...currentLayer.tiles], a new tiles array of the old rows
cloneTilesShallow(cells, ref) ==
  [cells |-> Append(cells, cells[ref]), ref |-> Len(cells) + 1]

\* currentLayer.tiles.map(row => [...row]): a new array per row and a new
\* tiles array of them
cloneTiles(cells, ref) ==
  LET n == Len(cells)
      h == Cardinality(DOMAIN cells[ref])
  IN  [cells |-> cells \o [k \in 1..h |-> cells[cells[ref][k - 1]]]
                       \o <<[y \in 0..(h - 1) |-> n + y + 1]>>,
       ref |-> n + h + 1]

\* the assignments newTiles[y][x] = value that leave the array at ref
\* reading as tiles: they land in the rows the array refers to
assignTiles(cells, ref, tiles) ==
  [r \in 1..Len(cells) |->
     IF \E y \in DOMAIN cells[ref] : cells[ref][y] = r
     THEN tiles[CHOOSE y \in DOMAIN cells[ref] : cells[ref][y] = r]
     ELSE cells[r]]

applyToolAtPositionHeap(x, y) ==
  /\ IF ~ValidIndex(currentLayer, layers)
     THEN \* currentLayer.tiles of undefined: TypeError, no state is set
          /\ last' = Threw("applyToolAtPosition", x, y)
          /\ UNCHANGED <<layers, heap>>
     ELSE \E c \in {cloneTiles(heap.cells, heap.tiles[currentLayer + 1])} :
          \E cloned \in {TilesAt(c.cells, c.ref)} :
            /\ last' = Call("applyToolAtPosition", x, y)
            /\ IF \/ ~InBounds(x, y, mapSize)
                  \/ /\ selectedTool = "fill"
                     /\ selectedTile # NoTile
                     /\ cloned[y][x] = encodeTile(selectedTile)
               THEN \* return prevState: the clone is dropped
                    /\ heap' = [heap EXCEPT !.cells = c.cells]
                    /\ UNCHANGED layers
               ELSE \E assigned \in
                       {assignTiles(c.cells, c.ref,
                                    toolTiles(cloned, selectedTool, selectedTile,
                                              x, y, mapSize))} :
                      /\ heap' = [cells |-> assigned,
                                  tiles |-> [heap.tiles EXCEPT
                                               ![currentLayer + 1] = c.ref]]
                      /\ layers' = [layers EXCEPT ![currentLayer + 1].tiles =
                                      TilesAt(assigned, c.ref)]
  /\ UNCHANGED <<mapSize, currentLayer, selectedTool, selectedTile,
                 multiTileSelection, mapType, tileSize>>
  /\ UNCHANGED fillVars
  /\ UNCHANGED <<drawn, selectedTileset, cursorPosition, canvasVars, providerVars>>

InputHeap ==
  /\ InputWhole(FillRefs, {"grid"}, {DefaultTileSize})
  /\ heap = HeapOf(layers)
  /\ drawn = {}
  /\ InputOutside

NextHeap == \E x \in XCells, y \in YCells : Once(applyToolAtPositionHeap(x, y))

SpecHeap == InputHeap /\ [][NextHeap]_vars

\* any tool on a whole editor state, with a tile selected or none
InputFrame ==
  /\ InputWhole(FillRefs \cup {NoTile}, MapTypes, TileSizes)
  /\ heap = NoHeap
  /\ drawn = {}
  /\ InputOutside

NextFrame == \E x \in XArgs, y \in YArgs : Once(applyToolAtPosition(x, y))

SpecFrame == InputFrame /\ [][NextFrame]_vars

(***************************************************************************)
(* The layer list: at most MaxOps calls of removeLayer,                    *)
(* toggleLayerVisibility and renameLayer on a map of one to MaxLayers      *)
(* layers, one of them with a painted cell.                                *)
(***************************************************************************)
\* the names typed into the rename field: a new one and one in use
NameArgs == {<<"Ground">>, <<"Layer", 2>>}

InputLayerOps ==
  /\ \E n \in 1..MaxLayers, i \in 1..MaxLayers :
       /\ i <= n
       /\ mapSize = [width |-> MaxW, height |-> MaxH]
       /\ layers \in {[FreshLayers(MaxW, MaxH, n) EXCEPT
                         ![i].tiles[0][0] = encodeTile(t)] : t \in FillRefs}
  /\ currentLayer \in 0..(Len(layers) - 1)
  /\ selectedTool = "smallBrush"
  /\ selectedTile = NoTile
  /\ InputDefaults
  /\ heap = NoHeap
  /\ drawn = {}
  /\ InputOutside

NextLayerOps ==
  \/ \E i \in IndexArgs : Counted(removeLayer(i))
  \/ \E i \in IndexArgs : Counted(toggleLayerVisibility(i))
  \/ \E i \in IndexArgs, name \in NameArgs : Counted(renameLayer(i, name))

SpecLayerOps == InputLayerOps /\ [][NextLayerOps]_vars

(***************************************************************************)
(* One removeLayer on a stack of up to MaxLayers + 1 layers, the active     *)
(* layer in the middle of the tallest.                                      *)
(***************************************************************************)
\* the layers addLayer has stacked on the base layer, with ids of their own
LayerStack(width, height, n) ==
  [k \in 1..n |->
     createEmptyLayer(width, height,
                      IF k = 1 THEN <<"Layer", 1, "(Base)">> ELSE <<"Layer", k>>, k)]

InputRemove ==
  /\ \E w \in Widths, h \in Heights, n \in 1..(MaxLayers + 1) :
       /\ mapSize = [width |-> w, height |-> h]
       /\ layers = LayerStack(w, h, n)
  /\ currentLayer \in 0..(Len(layers) - 1)
  /\ selectedTool = "smallBrush"
  /\ selectedTile = NoTile
  /\ InputDefaults
  /\ heap = NoHeap
  /\ drawn = {}
  /\ InputOutside

NextRemove ==
  /\ ops = 0
  /\ \E i \in (0 - 1)..(MaxLayers + 1) : Once(removeLayer(i))

SpecRemove == InputRemove /\ [][NextRemove]_vars

(***************************************************************************)
(* The tile palette: at most MaxOps selections of a tile, a block of tiles  *)
(* and a tileset, from the state after construction.                        *)
(***************************************************************************)
\* the blocks dragged over the palette: one or two tiles a side, with gaps
SelectionSides == 1..2

SelectionBlocks(width, height) ==
  [1..height -> [1..width -> TileRefs \cup {NoTile}]]

NextSelect ==
  \/ \E t \in TileRefs \cup {NoTile} : Counted(setSelectedTile(t))
  \/ \E w \in SelectionSides, h \in SelectionSides :
       \E tiles \in SelectionBlocks(w, h) : Counted(setMultiTileSelection(w, h, tiles))
  \/ \E id \in {NoTileset, 1, 2} : Counted(setSelectedTileset(id))

SpecSelect == Init /\ [][NextSelect]_vars

(***************************************************************************)
(* A tile stored by the small brush and read back by drawLayer.            *)
(***************************************************************************)
\* drawLayer(ctx, tilesets, layer, tileSize, mapType) on the layer at index,
\* with the image of every tileset loaded: the calls of drawTile
drawLayer(index) ==
  /\ ValidIndex(index, layers)
  /\ LET tiles == layers[index + 1].tiles IN
       drawn' = {[tile |-> decodeTile(tiles[c.y][c.x]), x |-> c.x, y |-> c.y] :
                   c \in {d \in {[x |-> x, y |-> y] :
                                    x \in DOMAIN tiles[0], y \in DOMAIN tiles} :
                            tiles[d.y][d.x] # NULL}}
  /\ last' = Call("drawLayer", index, 0)
  /\ UNCHANGED <<editorVars, heap, selectedTileset, cursorPosition, canvasVars, providerVars>>
  /\ UNCHANGED fillVars

\* the integers a TilePosition is made of: signs, one to four digits
CodecNumbers == (0 - 2)..MaxCoord \cup {100, 1005}

\* a one-cell map and a tile of any three of the numbers selected
InputCodec ==
  /\ mapSize = [width |-> 1, height |-> 1]
  /\ layers = FreshLayers(1, 1, 1)
  /\ currentLayer = 0
  /\ selectedTool = "smallBrush"
  /\ selectedTile \in [tilesetId : CodecNumbers, x : CodecNumbers, y : CodecNumbers]
  /\ selectedTile # NoTile
  /\ InputDefaults
  /\ heap = NoHeap
  /\ drawn = {}
  /\ InputOutside

NextCodec ==
  \/ Once(applyToolAtPosition(0, 0))
  \/ ops = 1 /\ ops' = 2 /\ drawLayer(0)

SpecCodec == InputCodec /\ [][NextCodec]_vars

(***************************************************************************)
(* One pointer event on a fresh map of the largest size, of any tile size   *)
(* up to MaxTileSize and any topology value a stored map can carry.         *)
(***************************************************************************)
\* map_type is a text column: any string comes back from a load
TopologyValues == MapTypes \cup {"iso"}

\* positions inside a pixel: on its edge, next to it, in the middle, at the end
SubPixels == {0, 1, PixelUnit \div 2, PixelUnit - 1}

\* canvas coordinates from one tile before the map to one tile after it
CanvasCoords(cells, size) ==
  {p * PixelUnit + s : p \in (0 - size)..(cells * size + size - 1), s \in SubPixels}

InputPointer ==
  /\ mapSize = [width |-> MaxW, height |-> MaxH]
  /\ layers = FreshLayers(MaxW, MaxH, 1)
  /\ currentLayer = 0
  /\ selectedTool = "smallBrush"
  /\ selectedTile \in FillRefs
  /\ mapType \in TopologyValues
  /\ tileSize \in 1..MaxTileSize
  /\ multiTileSelection = [width |-> 1, height |-> 1, tiles |-> <<<<selectedTile>>>>]
  /\ last = Call("input", 0, 0)
  /\ ops = 0
  /\ IdleFill
  /\ heap = NoHeap
  /\ drawn = {}
  /\ InputOutside

\* the guard of Once comes first: no point is drawn once the event is handled
NextPointer ==
  \/ /\ ops = 0
     /\ \E x \in CanvasCoords(MaxW, tileSize), y \in CanvasCoords(MaxH, tileSize) :
          Once(handleMouseDown(x, y))
  \/ /\ ops = 0
     /\ \E x \in CanvasCoords(MaxW, tileSize), y \in CanvasCoords(MaxH, tileSize) :
          Once(handleMouseMove(x, y))

SpecPointer == InputPointer /\ [][NextPointer]_vars

(***************************************************************************)
(* Drag gestures: at most MaxOps pointer events and tile selections on a    *)
(* fresh grid map, the pointer over the middle of a cell of the first row.  *)
(***************************************************************************)
CellMiddle(c) == c * DefaultTileSize * PixelUnit + (DefaultTileSize * PixelUnit) \div 2

InputDrag ==
  /\ mapSize = [width |-> MaxW, height |-> MaxH]
  /\ layers = FreshLayers(MaxW, MaxH, 1)
  /\ currentLayer = 0
  /\ selectedTool = "smallBrush"
  /\ selectedTile \in FillRefs
  /\ InputDefaults
  /\ heap = NoHeap
  /\ drawn = {}
  /\ InputOutside

NextDrag ==
  \/ \E x \in XCells : Counted(handleMouseDown(CellMiddle(x), CellMiddle(0)))
  \/ \E x \in XCells : Counted(handleMouseMove(CellMiddle(x), CellMiddle(0)))
  \/ Counted(handleMouseUp)
  \/ Counted(handleMouseLeave)
  \/ \E t \in TileRefs : Counted(setSelectedTile(t))

SpecDrag == InputDrag /\ [][NextDrag]_vars

(***************************************************************************)
(* EditorProvider: the loadTilesets effect and loadMap, one step per        *)
(* await.  A tileset is its id; a stored map is the row GET /api/maps/:id   *)
(* answers with.                                                            *)
(***************************************************************************)
\* catch: setIsLoading(false), for a rejected fetch, a response that is not
\* ok and a body that is not JSON
loadTilesetsFails ==
  /\ catalog.pc = "fetching"
  /\ catalog' = [catalog EXCEPT !.pc = "failed"]
  /\ isLoading' = FALSE
  /\ UNCHANGED <<editorVars, last, ops, fillVars>>
  /\ UNCHANGED <<heap, drawn, selectedTileset, cursorPosition, canvasVars, tilesets,
                 loadedTilesetImages, load>>

\* const data = await response.json(); setTilesets(data); the images load next
loadTilesetsData(data) ==
  /\ catalog.pc = "fetching"
  /\ catalog' = [pc |-> "images", data |-> data]
  /\ tilesets' = data
  /\ UNCHANGED <<editorVars, last, ops, fillVars>>
  /\ UNCHANGED <<heap, drawn, selectedTileset, cursorPosition, canvasVars,
                 loadedTilesetImages, isLoading, load>>

\* after await Promise.all: the images that loaded are kept, the flag is
\* cleared and the first tileset is selected
loadTilesetsImages(loaded) ==
  /\ catalog.pc = "images"
  /\ catalog' = [catalog EXCEPT !.pc = "done"]
  /\ loadedTilesetImages' = loaded
  /\ isLoading' = FALSE
  /\ selectedTileset' = IF Len(catalog.data) > 0 THEN catalog.data[1].id ELSE selectedTileset
  /\ UNCHANGED <<editorVars, last, ops, fillVars>>
  /\ UNCHANGED <<heap, drawn, cursorPosition, canvasVars, tilesets, load>>

\* loadMap(id) up to its fetch: the function closes over the tilesets of the
\* render that made it
loadMapCall ==
  /\ load.pc = "idle"
  /\ load' = [pc |-> "fetching", tilesets |-> tilesets, map |-> NULL]
  /\ isLoading' = TRUE
  /\ UNCHANGED <<editorVars, last, ops, fillVars>>
  /\ UNCHANGED <<heap, drawn, selectedTileset, cursorPosition, canvasVars, tilesets,
                 loadedTilesetImages, catalog>>

\* HomeContent: the effect that finds mapToLoad in localStorage runs once,
\* after the first render, before any response has arrived
mapToLoadEffect ==
  /\ catalog.pc = "fetching"
  /\ last.op = "init"
  /\ loadMapCall

\* catch: setIsLoading(false) and rethrow
loadMapFails ==
  /\ load.pc = "fetching"
  /\ load' = [load EXCEPT !.pc = "failed"]
  /\ isLoading' = FALSE
  /\ last' = Threw("loadMap", 0, 0)
  /\ UNCHANGED <<editorVars, ops, fillVars>>
  /\ UNCHANGED <<heap, drawn, selectedTileset, cursorPosition, canvasVars, tilesets,
                 loadedTilesetImages, catalog>>

\* const map = await response.json(); setState({...}); setIsLoading(false)
loadMapResolves(map) ==
  /\ load.pc = "fetching"
  /\ load' = [load EXCEPT !.pc = "done", !.map = map]
  /\ mapType' = map.mapType
  /\ tileSize' = map.tileSize
  /\ mapSize' = [width |-> map.width, height |-> map.height]
  /\ selectedTool' = "smallBrush"
  /\ currentLayer' = 0
  /\ layers' = map.layers
  /\ selectedTileset' = IF Len(load.tilesets) > 0 THEN load.tilesets[1].id ELSE NoTileset
  /\ selectedTile' = NoTile
  /\ multiTileSelection' = [width |-> 1, height |-> 1, tiles |-> <<<<NoTile>>>>]
  /\ cursorPosition' = NoPosition
  /\ isLoading' = FALSE
  /\ last' = Call("loadMap", 0, 0)
  /\ UNCHANGED <<ops, fillVars>>
  /\ UNCHANGED <<heap, drawn, canvasVars, tilesets, loadedTilesetImages, catalog>>

\* the catalogs GET /api/tilesets answers with
Catalogs == {<<>>, <<[id |-> 1]>>, <<[id |-> 2], [id |-> 1]>>}

CatalogIds(data) == {data[i].id : i \in 1..Len(data)}

\* the layers column is jsonb and POST /api/maps checks no layer: a stored
\* map holds any list of layers, whatever its width and height
StoredLayers ==
  {<<>>} \cup {FreshLayers(w, h, n) : w \in Widths, h \in Heights, n \in 1..MaxLayers}

StoredMaps ==
  [mapType : TopologyValues, tileSize : {DefaultTileSize}, width : Widths,
   height : Heights, layers : StoredLayers]

NextLoad ==
  \/ mapToLoadEffect
  \/ loadMapFails
  \/ \E map \in StoredMaps : loadMapResolves(map)
  \/ loadTilesetsFails
  \/ \E data \in Catalogs : loadTilesetsData(data)
  \/ \E loaded \in SUBSET CatalogIds(catalog.data) : loadTilesetsImages(loaded)

SpecLoad == Init /\ [][NextLoad]_vars

(***************************************************************************)
(* A fresh map: the state after construction, and createNewMap of any       *)
(* topology, tile size, width and height on a map of any size and layers.   *)
(***************************************************************************)
InputNewMap ==
  \/ Init
  \/ /\ InputWhole(FillRefs, {"grid"}, {DefaultTileSize})
     /\ heap = NoHeap
     /\ drawn = {}
     /\ InputOutside

NextNewMap ==
  /\ ops = 0
  /\ \E type \in MapTypes, size \in TileSizes, w \in Widths, h \in Heights :
       Once(createNewMapAction(type, size, w, h))

SpecNewMap == InputNewMap /\ [][NextNewMap]_vars

(***************************************************************************)
(* The fill of applyToolAtPosition, one loop iteration per step, on a      *)
(* single-layer input with the fill tool and a tile selected.              *)
(***************************************************************************)
InputFill ==
  /\ \E w \in Widths, h \in Heights :
       /\ mapSize = [width |-> w, height |-> h]
       /\ layers \in PaintedLayers(FreshLayers(w, h, 1), 1, MaxPainted)
  /\ currentLayer = 0
  /\ selectedTool = "fill"
  /\ selectedTile \in FillRefs
  /\ InputDefaults
  /\ heap = NoHeap
  /\ drawn = {}
  /\ InputOutside

NoWrites(tiles) ==
  [c \in {[x |-> x, y |-> y] : x \in DOMAIN tiles[0], y \in DOMAIN tiles} |-> 0]

\* applyToolAtPosition(x, y) up to the while loop
beginFill(x, y) ==
  /\ pc = "idle"
  /\ last' = Call("applyToolAtPosition", x, y)
  /\ IF ~InBounds(x, y, mapSize)
     THEN /\ pc' = "done"
          /\ UNCHANGED <<fill, newTiles, queue, writes>>
     ELSE LET tiles == layers[currentLayer + 1].tiles
              targetValue == tiles[y][x]
              replacementValue == encodeTile(selectedTile)
          IN  /\ newTiles' = tiles
              /\ writes' = NoWrites(tiles)
              /\ fill' = [x |-> x, y |-> y, targetValue |-> targetValue,
                          replacementValue |-> replacementValue]
              /\ IF targetValue = replacementValue
                 THEN pc' = "done" /\ UNCHANGED queue
                 ELSE pc' = "loop" /\ queue' = <<[x |-> x, y |-> y]>>
  /\ UNCHANGED <<editorVars, outsideVars, ops, stack>>

\* one pass through the body of while (queue.length > 0)
fillStep ==
  /\ pc = "loop"
  /\ Len(queue) > 0
  /\ LET r == fillIteration(newTiles, queue, fill.targetValue,
                            fill.replacementValue, mapSize)
     IN  /\ newTiles' = r.tiles
         /\ queue' = r.queue
         /\ writes' = IF r.wrote
                      THEN [writes EXCEPT ![Head(queue)] = @ + 1]
                      ELSE writes
  /\ UNCHANGED <<editorVars, outsideVars, last, ops, pc, fill, stack>>

\* the loop is left and the new tiles are published
fillExit ==
  /\ pc = "loop"
  /\ Len(queue) = 0
  /\ pc' = "done"
  /\ layers' = [layers EXCEPT ![currentLayer + 1].tiles = newTiles]
  /\ UNCHANGED <<outsideVars, mapType, tileSize, mapSize, currentLayer, selectedTool, selectedTile,
                 multiTileSelection, last, ops, fill, newTiles, queue, stack, writes>>

NextFill ==
  \/ \E x \in XCells, y \in YCells : beginFill(x, y)
  \/ fillStep
  \/ fillExit

\* the handler runs to completion once called: no other event interleaves
SpecFill ==
  InputFill /\ [][NextFill]_vars /\ WF_vars(fillStep) /\ WF_vars(fillExit)

(***************************************************************************)
(* The fill tool of applyTool in lib/canvasUtils, one step of the          *)
(* recursive floodFill per step.  A frame holds the cell of a call and     *)
(* the number of recursive calls it has made.                              *)
(***************************************************************************)
\* newTiles[y][x] where x is past the row: undefined
UNDEFINED == <<"undefined">>

\* applyTool(state, x, y, 'fill') up to the call of floodFill
beginFloodFill(x, y) ==
  /\ pc = "idle"
  /\ last' = Call("applyTool", x, y)
  /\ LET tiles == layers[currentLayer + 1].tiles IN
       IF y \notin DOMAIN tiles
       THEN \* newTiles[y] is undefined: TypeError
            /\ pc' = "threw"
            /\ UNCHANGED <<fill, newTiles, stack, writes>>
       ELSE /\ pc' = "flood"
            /\ newTiles' = tiles
            /\ writes' = NoWrites(tiles)
            /\ fill' = [x |-> x, y |-> y,
                        targetValue |-> IF x \in DOMAIN tiles[y]
                                        THEN tiles[y][x] ELSE UNDEFINED,
                        replacementValue |-> encodeTile(selectedTile)]
            /\ stack' = <<[x |-> x, y |-> y, calls |-> 0, entered |-> FALSE]>>
  /\ UNCHANGED <<editorVars, outsideVars, ops, queue>>

\* the next step of the innermost call of floodFill
floodStep ==
  /\ pc = "flood"
  /\ Len(stack) > 0
  /\ LET n == Len(stack)
         f == stack[n]
         pop == SubSeq(stack, 1, n - 1)
     IN  IF ~f.entered
         THEN IF ~InBounds(f.x, f.y, mapSize)
              THEN stack' = pop /\ UNCHANGED <<pc, newTiles, writes>>
              ELSE IF newTiles[f.y][f.x] # fill.targetValue
              THEN stack' = pop /\ UNCHANGED <<pc, newTiles, writes>>
              ELSE /\ newTiles' = [newTiles EXCEPT ![f.y][f.x] = fill.replacementValue]
                   /\ writes' = [writes EXCEPT ![[x |-> f.x, y |-> f.y]] = @ + 1]
                   /\ stack' = [stack EXCEPT ![n].entered = TRUE]
                   /\ UNCHANGED pc
         ELSE IF f.calls = 4
         THEN stack' = pop /\ UNCHANGED <<pc, newTiles, writes>>
         ELSE IF n >= MaxStack
         THEN \* RangeError: Maximum call stack size exceeded
              pc' = "overflow" /\ UNCHANGED <<stack, newTiles, writes>>
         ELSE LET c == Pushed(f.x, f.y)[f.calls + 1] IN
                /\ stack' = Append([stack EXCEPT ![n].calls = @ + 1],
                                   [x |-> c.x, y |-> c.y, calls |-> 0,
                                    entered |-> FALSE])
                /\ UNCHANGED <<pc, newTiles, writes>>
  /\ UNCHANGED <<editorVars, outsideVars, last, ops, fill, queue>>

\* floodFill has returned and applyTool returns the state with the new tiles
floodExit ==
  /\ pc = "flood"
  /\ Len(stack) = 0
  /\ pc' = "floodDone"
  /\ layers' = [layers EXCEPT ![currentLayer + 1].tiles = newTiles]
  /\ UNCHANGED <<outsideVars, mapType, tileSize, mapSize, currentLayer, selectedTool, selectedTile,
                 multiTileSelection, last, ops, fill, newTiles, queue, stack, writes>>

\* setTile(tiles, x, y, tilePosition, mapSize): the tiles afterwards
setTile(tiles, x, y, tilePosition, size) ==
  IF x < 0 \/ y < 0 \/ x >= size.width \/ y >= size.height
  THEN tiles
  ELSE IF tilePosition = NoTile
  THEN [tiles EXCEPT ![y][x] = NULL]
  ELSE [tiles EXCEPT ![y][x] = encodeTile(tilePosition)]

\* the (dx, dy) of the two loops of case 'largeBrush', in their order
BrushOffsets ==
  <<[dx |-> -1, dy |-> -1], [dx |-> 0, dy |-> -1], [dx |-> 1, dy |-> -1],
    [dx |-> -1, dy |-> 0], [dx |-> 0, dy |-> 0], [dx |-> 1, dy |-> 0],
    [dx |-> -1, dy |-> 1], [dx |-> 0, dy |-> 1], [dx |-> 1, dy |-> 1]>>

RECURSIVE setTiles(_, _, _, _, _, _)
setTiles(tiles, x, y, tilePosition, size, offsets) ==
  IF offsets = <<>> THEN tiles
  ELSE setTiles(setTile(tiles, x + Head(offsets).dx, y + Head(offsets).dy,
                        tilePosition, size),
                x, y, tilePosition, size, Tail(offsets))

\* applyTool(state, x, y, tool) for the tools that go through setTile
applyToolSetTile(x, y, tool) ==
  /\ pc = "idle"
  /\ tool # "fill"
  /\ IF selectedTile = NoTile /\ tool # "eraser"
     THEN \* return state
          /\ last' = Call("applyTool", x, y)
          /\ UNCHANGED layers
     ELSE IF ~ValidIndex(currentLayer, layers)
     THEN \* currentLayer.tiles of undefined: TypeError
          /\ last' = Threw("applyTool", x, y)
          /\ UNCHANGED layers
     ELSE /\ last' = Call("applyTool", x, y)
          /\ layers' = [layers EXCEPT ![currentLayer + 1].tiles =
               CASE tool = "smallBrush" ->
                      setTile(@, x, y, selectedTile, mapSize)
                 [] tool = "largeBrush" ->
                      setTiles(@, x, y, selectedTile, mapSize, BrushOffsets)
                 [] tool = "eraser" ->
                      setTile(@, x, y, NoTile, mapSize)]
  /\ pc' = IF last'.threw THEN "threw" ELSE "floodDone"
  /\ UNCHANGED <<outsideVars, mapType, tileSize, mapSize, currentLayer, selectedTool, selectedTile,
                 multiTileSelection, ops, fill, newTiles, queue, stack, writes>>

\* mutant: the call for (x, y - 1) is missing
RECURSIVE floodFillThreeWays(_, _, _, _, _, _)
floodFillThreeWays(tiles, x, y, targetValue, replacementValue, size) ==
  IF x < 0 \/ y < 0 \/ x >= size.width \/ y >= size.height
  THEN tiles
  ELSE IF tiles[y][x] # targetValue
  THEN tiles
  ELSE LET filled == [tiles EXCEPT ![y][x] = replacementValue]
           right == floodFillThreeWays(filled, x + 1, y, targetValue, replacementValue, size)
           left == floodFillThreeWays(right, x - 1, y, targetValue, replacementValue, size)
       IN  floodFillThreeWays(left, x, y + 1, targetValue, replacementValue, size)

\* floodFill(tiles, x, y, targetValue, replacementValue, mapSize) as a whole:
\* the tiles when the call returns, for targetValue # replacementValue
RECURSIVE floodFill(_, _, _, _, _, _)
floodFill(tiles, x, y, targetValue, replacementValue, size) ==
  IF x < 0 \/ y < 0 \/ x >= size.width \/ y >= size.height
  THEN tiles
  ELSE IF tiles[y][x] # targetValue
  THEN tiles
  ELSE LET filled == [tiles EXCEPT ![y][x] = replacementValue]
           right == floodFill(filled, x + 1, y, targetValue, replacementValue, size)
           left == floodFill(right, x - 1, y, targetValue, replacementValue, size)
           down == floodFill(left, x, y + 1, targetValue, replacementValue, size)
       IN  floodFill(down, x, y - 1, targetValue, replacementValue, size)

\* applyTool(state, x, y, tool) as one call, for an in-bounds (x, y) and a
\* valid active index; a fill whose target holds the replacement value
\* recurses until the RangeError
applyTool(x, y, tool) ==
  /\ pc = "idle"
  /\ InBounds(x, y, mapSize)
  /\ ValidIndex(currentLayer, layers)
  /\ LET tiles == layers[currentLayer + 1].tiles IN
       IF selectedTile = NoTile /\ tool # "eraser"
       THEN /\ last' = Call("applyTool", x, y)
            /\ UNCHANGED layers
       ELSE IF tool = "fill" /\ tiles[y][x] = encodeTile(selectedTile)
       THEN /\ last' = Threw("applyTool", x, y)
            /\ UNCHANGED layers
       ELSE /\ last' = Call("applyTool", x, y)
            /\ layers' = [layers EXCEPT ![currentLayer + 1].tiles =
                 CASE tool = "smallBrush" ->
                        setTile(tiles, x, y, selectedTile, mapSize)
                   [] tool = "largeBrush" ->
                        setTiles(tiles, x, y, selectedTile, mapSize, BrushOffsets)
                   [] tool = "fill" ->
                        floodFill(tiles, x, y, tiles[y][x], encodeTile(selectedTile),
                                  mapSize)
                   [] tool = "eraser" ->
                        setTile(tiles, x, y, NoTile, mapSize)]
  /\ UNCHANGED <<outsideVars, mapType, tileSize, mapSize, currentLayer, selectedTool,
                 selectedTile, multiTileSelection>>
  /\ UNCHANGED fillVars

\* one call of applyTool with the selected tool on a single-layer map
InputApplyTool ==
  /\ \E w \in Widths, h \in Heights :
       /\ mapSize = [width |-> w, height |-> h]
       /\ layers \in PaintedLayers(FreshLayers(w, h, 1), 1, MaxPainted)
  /\ currentLayer = 0
  /\ selectedTool \in Tools
  /\ selectedTile \in FillRefs
  /\ InputDefaults
  /\ heap = NoHeap
  /\ drawn = {}
  /\ InputOutside

NextApplyTool ==
  /\ ops = 0
  /\ \E x \in XCells, y \in YCells : Once(applyTool(x, y, selectedTool))

SpecApplyTool == InputApplyTool /\ [][NextApplyTool]_vars

NextFlood ==
  \/ \E x \in XArgs, y \in YArgs : beginFloodFill(x, y)
  \/ \E x \in XArgs, y \in YArgs, tool \in Tools : applyToolSetTile(x, y, tool)
  \/ floodStep
  \/ floodExit

SpecFlood ==
  InputFill /\ [][NextFlood]_vars /\ WF_vars(floodStep) /\ WF_vars(floodExit)

(***************************************************************************)
(* Properties                                                              *)
(***************************************************************************)
Rows(tiles) == DOMAIN tiles
SomePainted == \E i \in 1..Len(layers) : \E y \in Rows(layers[i].tiles) :
                 \E x \in DOMAIN layers[i].tiles[y] : layers[i].tiles[y][x] # NULL

\* C1: in every state reached by createNewMap, setMapSize, addLayer,
\* removeLayer and applyToolAtPosition, every layer's tiles have exactly
\* mapSize.height rows of exactly mapSize.width cells.
C1_LayerDimensions ==
  \A i \in 1..Len(layers) :
    /\ Rows(layers[i].tiles) = 0..(mapSize.height - 1)
    /\ \A y \in Rows(layers[i].tiles) :
         DOMAIN layers[i].tiles[y] = 0..(mapSize.width - 1)

\* a painted two-layer map that has just been resized to a narrower size
C1_Witness ==
  /\ last.op = "setMapSize"
  /\ last.a < MaxW
  /\ Len(layers) = 2
  /\ SomePainted

\* C2: setMapSize(newWidth, newHeight) gives every layer a newHeight x
\* newWidth array whose cell (x, y) is the old cell (x, y) when
\* x < min(oldWidth, newWidth) and y < min(oldHeight, newHeight) and empty
\* otherwise; mapSize and all layers change in the same step.
Min(a, b) == IF a < b THEN a ELSE b

C2_ResizePreserves ==
  [][last'.op = "setMapSize" =>
       /\ mapSize' = [width |-> last'.a, height |-> last'.b]
       /\ Len(layers') = Len(layers)
       /\ \A i \in 1..Len(layers) :
            /\ Rows(layers'[i].tiles) = 0..(last'.b - 1)
            /\ \A y \in 0..(last'.b - 1) :
                 /\ DOMAIN layers'[i].tiles[y] = 0..(last'.a - 1)
                 /\ \A x \in 0..(last'.a - 1) :
                      layers'[i].tiles[y][x] =
                        IF x < Min(mapSize.width, last'.a)
                             /\ y < Min(mapSize.height, last'.b)
                        THEN layers[i].tiles[y][x]
                        ELSE NULL]_vars

\* two layers resized to a wider and lower map that still shows a painted cell
C2_Witness ==
  /\ last.op = "setMapSize"
  /\ last.a = MaxW /\ last.b = 1
  /\ Len(layers) = 2
  /\ \E x \in 1..(MaxW - 1) : layers[2].tiles[0][x] = NULL
  /\ \E x \in 0..(MaxW - 1) : layers[2].tiles[0][x] # NULL

\* C3: the layer count is at least 1 after any calls of addLayer and
\* removeLayer, and removeLayer on a single-layer map leaves the state as
\* it was.
C3_AtLeastOneLayer ==
  /\ [](Len(layers) >= 1)
  /\ [][last'.op = "removeLayer" /\ Len(layers) = 1 =>
          editorVars' = editorVars]_vars

\* removeLayer called first thing, on the single-layer map of the constructor
C3_Witness ==
  /\ last.op = "removeLayer"
  /\ Len(layers) = 1
  /\ ops = 1

\* C4: 0 <= currentLayer < layers.length in every state reached by
\* addLayer, removeLayer(index), setCurrentLayer(index) and createNewMap.
C4_CurrentLayerValid == ValidIndex(currentLayer, layers)

(***************************************************************************)
(* The paint tools of applyToolAtPosition                                  *)
(***************************************************************************)
\* a step in which applyToolAtPosition(last'.a, last'.b) runs the given tool
\* with a selected tile on an in-bounds cell of the active layer
PaintStep(tool) ==
  /\ last'.op = "applyToolAtPosition"
  /\ ValidIndex(currentLayer, layers)
  /\ selectedTool = tool
  /\ selectedTile # NoTile
  /\ InBounds(last'.a, last'.b, mapSize)

\* the state after such a call
Painted(tool) ==
  /\ last.op = "applyToolAtPosition"
  /\ ValidIndex(currentLayer, layers)
  /\ selectedTool = tool
  /\ selectedTile # NoTile
  /\ InBounds(last.a, last.b, mapSize)

ActiveTiles == layers[currentLayer + 1].tiles
Cells(tiles) == {[x |-> x, y |-> y] : x \in DOMAIN tiles[0], y \in DOMAIN tiles}
CellsHolding(tiles, v) == {c \in Cells(tiles) : tiles[c.y][c.x] = v}

Adjacent(c, d) ==
  \/ c.y = d.y /\ (c.x = d.x + 1 \/ d.x = c.x + 1)
  \/ c.x = d.x /\ (c.y = d.y + 1 \/ d.y = c.y + 1)

\* the cells joined to those of S by steps between adjacent cells holding v
RECURSIVE Connected(_, _, _)
Connected(S, tiles, v) ==
  LET more == {c \in CellsHolding(tiles, v) : \E d \in S : Adjacent(c, d)} IN
    IF more \subseteq S THEN S ELSE Connected(S \cup more, tiles, v)

Region(tiles, x, y) == Connected({[x |-> x, y |-> y]}, tiles, tiles[y][x])

\* C5: fill with a selected tile on an in-bounds target replaces with the
\* new encoding exactly the cells 4-connected to the target through cells
\* holding the target's original value; every other cell keeps its value.
C5_FillRegion ==
  [][PaintStep("fill") =>
       \E region \in {Region(ActiveTiles, last'.a, last'.b)} :
         layers'[currentLayer + 1].tiles =
           [y \in DOMAIN ActiveTiles |-> [x \in DOMAIN ActiveTiles[y] |->
              IF [x |-> x, y |-> y] \in region
              THEN encodeTile(selectedTile)
              ELSE ActiveTiles[y][x]]]]_vars

\* a fill that covered three cells or more and left an empty pocket behind
\* cells of the other tile
C5_Witness ==
  /\ Painted("fill")
  /\ ops = 1
  /\ Cardinality(CellsHolding(ActiveTiles, encodeTile(selectedTile))) >= 3
  /\ CellsHolding(ActiveTiles, NULL) # {}
  /\ \E t \in TileRefs \ {selectedTile} : CellsHolding(ActiveTiles, encodeTile(t)) # {}

\* C7: fill changes nothing when the target cell already holds the
\* replacement value, so the same fill applied a second time at the same
\* cell changes no cell.
C7_FillTwice ==
  /\ [][PaintStep("fill")
           /\ ActiveTiles[last'.b][last'.a] = encodeTile(selectedTile)
         => layers' = layers]_vars
  /\ [][PaintStep("fill") /\ ops = 1 /\ ops' = 2 => layers' = layers]_vars

\* the second fill of a drag, on a layer where the first one replaced a
\* painted region next to empty cells
C7_Witness ==
  /\ Painted("fill")
  /\ ops = 2
  /\ CellsHolding(ActiveTiles, NULL) # {}
  /\ \E c \in CellsHolding(ActiveTiles, NULL) :
       Adjacent(c, [x |-> last.a, y |-> last.b])

\* C9: small brush with a selected tile on an in-bounds target writes the
\* encoded tile at exactly cell (x, y) of the active layer.
C9_SmallBrush ==
  [][PaintStep("smallBrush") =>
       layers'[currentLayer + 1].tiles =
         [y \in DOMAIN ActiveTiles |-> [x \in DOMAIN ActiveTiles[y] |->
            IF x = last'.a /\ y = last'.b
            THEN encodeTile(selectedTile)
            ELSE ActiveTiles[y][x]]]]_vars

\* a small-brush stroke on a layer of two rows that also holds an empty cell
\* and a cell of the other tile
C9_Witness ==
  /\ Painted("smallBrush")
  /\ ops = 1
  /\ mapSize.height >= 2
  /\ ActiveTiles[last.b][last.a] = encodeTile(selectedTile)
  /\ CellsHolding(ActiveTiles, NULL) # {}
  /\ \E t \in TileRefs \ {selectedTile} : CellsHolding(ActiveTiles, encodeTile(t)) # {}

\* C10: large brush with a selected tile on an in-bounds centre writes the
\* encoded tile at exactly the cells (x + dx, y + dy), dx, dy in -1..1,
\* inside the map; with the centre out of bounds nothing is written.
C10_LargeBrush ==
  /\ [][PaintStep("largeBrush") =>
          layers'[currentLayer + 1].tiles =
            [y \in DOMAIN ActiveTiles |-> [x \in DOMAIN ActiveTiles[y] |->
               IF /\ x - last'.a \in -1..1
                  /\ y - last'.b \in -1..1
               THEN encodeTile(selectedTile)
               ELSE ActiveTiles[y][x]]]]_vars
  /\ [][/\ last'.op = "applyToolAtPosition"
         /\ selectedTool = "largeBrush"
         /\ ~InBounds(last'.a, last'.b, mapSize)
         => layers' = layers]_vars

\* a large-brush stroke centred on the corner (0, 0) of a map three cells
\* wide, whose third column stays empty
C10_Witness ==
  /\ Painted("largeBrush")
  /\ ops = 1
  /\ last.a = 0 /\ last.b = 0
  /\ mapSize.width = 3
  /\ ActiveTiles[0][0] = encodeTile(selectedTile)
  /\ ActiveTiles[0][2] = NULL

\* C11: the eraser at an in-bounds target empties that cell whether or not
\* a tile is selected and changes no other cell; erasing an empty cell
\* leaves the layer contents as they were.
C11_Eraser ==
  [][/\ last'.op = "applyToolAtPosition"
     /\ ValidIndex(currentLayer, layers)
     /\ selectedTool = "eraser"
     /\ InBounds(last'.a, last'.b, mapSize)
     => /\ layers'[currentLayer + 1].tiles =
             [y \in DOMAIN ActiveTiles |-> [x \in DOMAIN ActiveTiles[y] |->
                IF x = last'.a /\ y = last'.b THEN NULL ELSE ActiveTiles[y][x]]]
        /\ ActiveTiles[last'.b][last'.a] = NULL => layers' = layers]_vars

\* the second erase of a drag with no tile selected, on a layer that keeps a
\* painted cell next to the erased one
C11_Witness ==
  /\ last.op = "applyToolAtPosition"
  /\ selectedTool = "eraser"
  /\ selectedTile = NoTile
  /\ ops = 2
  /\ InBounds(last.a, last.b, mapSize)
  /\ ActiveTiles[last.b][last.a] = NULL
  /\ \E c \in Cells(ActiveTiles) :
       Adjacent(c, [x |-> last.a, y |-> last.b]) /\ ActiveTiles[c.y][c.x] # NULL

\* C12: applyToolAtPosition with a target outside the map returns the
\* previous state unchanged and raises nothing, whichever tool is selected.
C12_OutOfBoundsNoOp ==
  [][/\ last'.op = "applyToolAtPosition"
     /\ ~InBounds(last'.a, last'.b, mapSize)
     => /\ ~last'.threw
        /\ editorVars' = editorVars]_vars

\* C13: applyTool of lib/canvasUtils never raises on a target outside the
\* map, whichever tool it is given, and leaves the layer contents as they
\* were.
C13_ApplyToolOutOfBounds ==
  /\ [](last.op = "applyTool" /\ ~InBounds(last.a, last.b, mapSize)
          => pc # "threw")
  /\ [][last'.op = "applyTool" /\ ~InBounds(last'.a, last'.b, mapSize)
          => layers' = layers]_vars

\* C14: with no tile selected, small brush, large brush and fill change no
\* cell of any layer; only the eraser may change one.
C14_NoTileNoOp ==
  [][/\ last'.op = "applyToolAtPosition"
     /\ selectedTile = NoTile
     /\ selectedTool # "eraser"
     => layers' = layers]_vars

\* a small-brush stroke without a tile on a painted cell of a two-layer map
C14_Witness ==
  /\ last.op = "applyToolAtPosition"
  /\ selectedTile = NoTile
  /\ selectedTool = "smallBrush"
  /\ ops = 1
  /\ Len(layers) = 2
  /\ InBounds(last.a, last.b, mapSize)
  /\ ActiveTiles[last.b][last.a] # NULL

\* C15: a paint operation never mutates the arrays of the state it was
\* applied to: after applyToolAtPosition every array of the previous state
\* holds the values it held, so the previous layers read as before, and
\* the changed cells are in arrays created by the call.
C15_CopyOnWrite ==
  [][last'.op = "applyToolAtPosition" =>
       /\ Len(heap'.cells) >= Len(heap.cells)
       /\ \A r \in 1..Len(heap.cells) : heap'.cells[r] = heap.cells[r]
       /\ \A i \in 1..Len(layers) :
            TilesAt(heap'.cells, heap.tiles[i]) = layers[i].tiles
       /\ \A i \in 1..Len(layers) :
            layers'[i].tiles # layers[i].tiles =>
              /\ heap'.tiles[i] > Len(heap.cells)
              /\ \A y \in DOMAIN heap'.cells[heap'.tiles[i]] :
                   heap'.cells[heap'.tiles[i]][y] > Len(heap.cells)
              /\ TilesAt(heap'.cells, heap'.tiles[i]) = layers'[i].tiles]_vars

\* the second layer of a painted two-layer map after a stroke that changed
\* it: its tiles are the array allocated last
C15_Witness ==
  /\ last.op = "applyToolAtPosition"
  /\ ops = 1
  /\ Len(layers) = 2
  /\ currentLayer = 1
  /\ heap.tiles[2] = Len(heap.cells)
  /\ heap.tiles[2] > Len(HeapOf(layers).cells)
  /\ TilesAt(heap.cells, Len(HeapOf(layers).cells)) # layers[2].tiles
  /\ CellsHolding(layers[2].tiles, NULL) # {}

\* C16: a tool application changes nothing but the cell array of the
\* active layer: the tiles of the other layers, every layer's id, name and
\* visibility, the layer order, mapSize, mapType, tileSize, currentLayer,
\* selectedTool and selectedTile stay as they were.
C16_ToolFrame ==
  [][last'.op = "applyToolAtPosition" =>
       /\ Len(layers') = Len(layers)
       /\ \A i \in 1..Len(layers) :
            /\ layers'[i].id = layers[i].id
            /\ layers'[i].name = layers[i].name
            /\ layers'[i].visible = layers[i].visible
            /\ i # currentLayer + 1 => layers'[i].tiles = layers[i].tiles
       /\ mapSize' = mapSize
       /\ mapType' = mapType
       /\ tileSize' = tileSize
       /\ currentLayer' = currentLayer
       /\ selectedTool' = selectedTool
       /\ selectedTile' = selectedTile]_vars

\* a stroke on the empty active layer of a two-layer hex map with the larger
\* tiles, whose other layer holds the painted cell
C16_Witness ==
  /\ last.op = "applyToolAtPosition"
  /\ ops = 1
  /\ Len(layers) = 2
  /\ mapType = "hex"
  /\ tileSize # DefaultTileSize
  /\ CellsHolding(ActiveTiles, NULL) # Cells(ActiveTiles)
  /\ CellsHolding(layers[2 - currentLayer].tiles, NULL)
       # Cells(layers[2 - currentLayer].tiles)

\* C17: addLayer appends one layer to the end of the list: all its cells
\* are empty, its dimensions are the current mapSize, it is named "Layer N"
\* with N the new layer count and is visible; the active index becomes
\* that of the new layer and the layers already there are unchanged.
C17_AddLayer ==
  [][last'.op = "addLayer" =>
       /\ Len(layers') = Len(layers) + 1
       /\ \A i \in 1..Len(layers) : layers'[i] = layers[i]
       /\ LET new == layers'[Len(layers')] IN
            /\ Rows(new.tiles) = 0..(mapSize.height - 1)
            /\ \A y \in Rows(new.tiles) :
                 /\ DOMAIN new.tiles[y] = 0..(mapSize.width - 1)
                 /\ \A x \in DOMAIN new.tiles[y] : new.tiles[y][x] = NULL
            /\ new.name = <<"Layer", Len(layers')>>
            /\ new.visible
       /\ currentLayer' = Len(layers') - 1
       /\ mapSize' = mapSize]_vars

\* a layer added to a painted map that was resized below the constructor's
\* size
C17_Witness ==
  /\ last.op = "addLayer"
  /\ Len(layers) = 2
  /\ currentLayer = 1
  /\ mapSize.width < MaxW
  /\ CellsHolding(layers[1].tiles, NULL) # Cells(layers[1].tiles)

\* C18: removeLayer, renameLayer and toggleLayerVisibility called with an
\* index that is not the index of a layer (negative, or the layer count or
\* more) leave the layer list, its length and every layer unchanged.
C18_IndexRejected ==
  [][/\ last'.op \in {"removeLayer", "renameLayer", "toggleLayerVisibility"}
     /\ ~ValidIndex(last'.a, layers)
     => layers' = layers]_vars

\* a layer as createEmptyLayer makes it, whatever its name and visibility
IsLayer(l) == l # HOLE /\ DOMAIN l = {"id", "name", "visible", "tiles"}

\* a step of the given call on the index of a layer
LayerStep(op) ==
  /\ last'.op = op
  /\ ValidIndex(last'.a, layers)
  /\ IsLayer(layers[last'.a + 1])

\* layers' differs from layers at most at index a
OnlyLayerChanged(a) ==
  /\ Len(layers') = Len(layers)
  /\ \A i \in 1..Len(layers) : i # a + 1 => layers'[i] = layers[i]
  /\ currentLayer' = currentLayer

\* C19: toggleLayerVisibility(index) on an existing layer complements its
\* visible flag and renameLayer(index, name) sets its name; neither changes
\* anything else (the other layers, the layer's id and tiles, currentLayer),
\* and toggling the same layer twice gives back the flag it had.
C19_ToggleRename ==
  /\ [][LayerStep("toggleLayerVisibility") =>
          /\ OnlyLayerChanged(last'.a)
          /\ layers'[last'.a + 1] =
               [layers[last'.a + 1] EXCEPT !.visible = ~layers[last'.a + 1].visible]]_vars
  /\ [][LayerStep("renameLayer") =>
          /\ OnlyLayerChanged(last'.a)
          /\ layers'[last'.a + 1] = [layers[last'.a + 1] EXCEPT !.name = last'.b]]_vars
  /\ [](\A i \in 0..(Len(layers) - 1) :
          IsLayer(layers[i + 1]) =>
            toggledLayers(toggledLayers(layers, i), i) = layers)

\* a hidden, renamed layer of a two-layer map
\* whose other layer holds the painted cell and is active
C19_Witness ==
  /\ last.op = "toggleLayerVisibility"
  /\ ~last.threw
  /\ Len(layers) = 2
  /\ IsLayer(layers[last.a + 1])
  /\ ~layers[last.a + 1].visible
  /\ layers[last.a + 1].name \in NameArgs
  /\ currentLayer # last.a
  /\ IsLayer(layers[currentLayer + 1])
  /\ layers[currentLayer + 1].tiles[0][0] # NULL

\* C20: the tile encoding round-trips: for a TilePosition of integers,
\* splitting the stored string "tilesetId,x,y" on ',' and reading each part
\* as a number gives the same three numbers.
C20_EncodingRoundTrip ==
  last.op = "drawLayer" =>
    drawn = {[tile |-> selectedTile, x |-> 0, y |-> 0]}

\* a tile of a three-digit id, a two-digit column and a negative row, drawn
C20_Witness ==
  /\ last.op = "drawLayer"
  /\ selectedTile.tilesetId = 100
  /\ selectedTile.x = 10
  /\ selectedTile.y < 0
  /\ drawn # {}

\* the cell a pointer event was resolved to: the target of the tool for a
\* press, the cursor position for a move
PointerCell ==
  IF pointer.event = "down" THEN [x |-> last.a, y |-> last.b] ELSE cursorPosition

\* C21: on a grid map with tileSize > 0, every canvas point inside the pixel
\* rectangle of a cell (col*tileSize <= px < (col+1)*tileSize and the same
\* for the row) is mapped to that cell, and the canvas position of a cell is
\* mapped back to the cell.
C21_GridRoundTrip ==
  pointer.event \in {"down", "move"} /\ mapType = "grid" =>
    /\ PointerCell.x * tileSize * PixelUnit <= pointer.x
    /\ pointer.x < (PointerCell.x + 1) * tileSize * PixelUnit
    /\ PointerCell.y * tileSize * PixelUnit <= pointer.y
    /\ pointer.y < (PointerCell.y + 1) * tileSize * PixelUnit
    /\ \A col \in XArgs, row \in YArgs :
         [x |-> pointer.x, y |-> pointer.y] = mapToCanvasPosition(col, row, tileSize, mapType)
           => PointerCell = [x |-> col, y |-> row]

\* a move to a point past the middle of cell (1, 1) of tiles wider than a pixel
C21_Witness ==
  /\ pointer.event = "move"
  /\ mapType = "grid"
  /\ tileSize > 1
  /\ cursorPosition = [x |-> 1, y |-> 1]
  /\ 2 * pointer.x > 3 * tileSize * PixelUnit
  /\ 2 * pointer.y > 3 * tileSize * PixelUnit

\* C25: the coordinate transforms reject a topology value other than 'grid'
\* and 'hex' instead of returning a position.
C25_TopologyRejected ==
  pointer.event \in {"down", "move"} /\ mapType \notin MapTypes =>
    /\ last.threw
    /\ cursorPosition = NoPosition

\* the layers after the small brush wrote the selected tile at cell c
BrushedAt(c) ==
  [layers EXCEPT ![currentLayer + 1].tiles[c.y][c.x] = encodeTile(selectedTile)]

\* C22: the drag gesture is a two-state machine.  A press sets the flag and
\* applies the tool; a move applies the tool exactly when the flag is set;
\* release and leaving the canvas clear the flag, which only a press sets
\* again.  Each application acts on the state the earlier events left, in
\* the step of its own event.
C22_DragGesture ==
  [][pointer'.n # pointer.n =>
       LET e == pointer'.event
           c == canvasToMapPosition(pointer'.x, pointer'.y, tileSize, mapType)
           applies == e = "down" \/ (e = "move" /\ isDragging)
       IN  /\ isDragging' = applies
           /\ applies => /\ last' = Call("applyToolAtPosition", c.x, c.y)
                          /\ layers' = BrushedAt(c)
           /\ ~applies => /\ last' = last
                           /\ layers' = layers]_vars

\* a move after the release of a drag that painted: the cell under the
\* pointer stays empty
C22_Witness ==
  /\ pointer.event = "move"
  /\ ~isDragging
  /\ last.op = "applyToolAtPosition"
  /\ cursorPosition.x # last.a
  /\ layers[1].tiles[last.b][last.a] # NULL
  /\ layers[1].tiles[cursorPosition.y][cursorPosition.x] = NULL

\* at least one layer, every layer's tiles height x width, active index valid
ModelInvariants ==
  /\ Len(layers) >= 1
  /\ \A i \in 1..Len(layers) :
       /\ DOMAIN layers[i].tiles = 0..(mapSize.height - 1)
       /\ \A y \in DOMAIN layers[i].tiles :
            DOMAIN layers[i].tiles[y] = 0..(mapSize.width - 1)
  /\ ValidIndex(currentLayer, layers)

\* C23: loadMap either installs a map that satisfies the model invariants or
\* rejects the whole load and leaves the editor state unchanged.
C23_LoadAllOrNothing ==
  [][load'.pc # load.pc /\ load'.pc \in {"done", "failed"} =>
       \/ ModelInvariants'
       \/ /\ last'.threw
          /\ editorVars' = editorVars
          /\ selectedTileset' = selectedTileset
          /\ cursorPosition' = cursorPosition]_vars

\* C30: whatever the order in which the catalog load and the loadMap issued
\* on mount complete, once both have completed with a non-empty catalog
\* selectedTileset is the id of the first tileset and the layers are those
\* of the loaded map.
C30_CatalogAndMap ==
  catalog.pc = "done" /\ Len(catalog.data) > 0 /\ load.pc = "done" =>
    /\ selectedTileset = catalog.data[1].id
    /\ layers = load.map.layers

\* C24: a freshly created map (the initial state or createNewMap(type,
\* tileSize, width, height)) has exactly one layer, which is visible, has
\* all cells empty and dimensions height x width, and the active index 0.
C24_FreshMap ==
  last.op \in {"init", "createNewMap"} =>
    /\ Len(layers) = 1
    /\ layers[1].visible
    /\ DOMAIN layers[1].tiles = 0..(mapSize.height - 1)
    /\ \A y \in DOMAIN layers[1].tiles :
         /\ DOMAIN layers[1].tiles[y] = 0..(mapSize.width - 1)
         /\ \A x \in DOMAIN layers[1].tiles[y] : layers[1].tiles[y][x] = NULL
    /\ currentLayer = 0
    /\ last.op = "createNewMap" => mapSize = [width |-> last.a, height |-> last.b]

\* a hex map of the larger tile size, wider than one cell, just created
C24_Witness ==
  /\ last.op = "createNewMap"
  /\ mapType = "hex"
  /\ tileSize # DefaultTileSize
  /\ mapSize.width > 1
  /\ Len(layers) = 1

\* C26: in every state reached from a freshly created map by paint, resize
\* and layer operations each cell is null or the encoding "tilesetId,x,y" of
\* the tile that was selected at an earlier paint: the cells start null, and
\* a step brings in no value but null and, when it paints with a tile
\* selected, the encoding of that tile.
C26_CellValues ==
  /\ \A i \in 1..Len(layers) : \A y \in DOMAIN layers[i].tiles :
       \A x \in DOMAIN layers[i].tiles[y] : layers[i].tiles[y][x] = NULL
  /\ [][\A i \in 1..Len(layers') : \A y \in DOMAIN layers'[i].tiles :
          \A x \in DOMAIN layers'[i].tiles[y] :
            LET v == layers'[i].tiles[y][x] IN
              \/ v = NULL
              \/ /\ last'.op = "applyToolAtPosition"
                 /\ selectedTile # NoTile
                 /\ v = encodeTile(selectedTile)
              \/ \E j \in 1..Len(layers) : \E cy \in DOMAIN layers[j].tiles :
                   \E cx \in DOMAIN layers[j].tiles[cy] : layers[j].tiles[cy][cx] = v]_vars

\* a map painted with one tile and then the other, with a cell left empty
C26_Witness ==
  /\ last.op = "applyToolAtPosition"
  /\ \A t \in TileRefs : \E y \in DOMAIN layers[1].tiles : \E x \in DOMAIN layers[1].tiles[y] :
       layers[1].tiles[y][x] = encodeTile(t)
  /\ \E y \in DOMAIN layers[1].tiles : \E x \in DOMAIN layers[1].tiles[y] :
       layers[1].tiles[y][x] = NULL

\* C27: with a tile selected, for every in-bounds target and every tool,
\* when the target cell does not already hold the replacement value, applyTool
\* of lib/canvasUtils leaves the active layer with the tile array that
\* applyToolAtPosition of EditorContext gives for the same state.
C27_SameTiles ==
  [][/\ last'.op = "applyTool"
     /\ selectedTile # NoTile
     /\ InBounds(last'.a, last'.b, mapSize)
     /\ ActiveTiles[last'.b][last'.a] # encodeTile(selectedTile)
     => /\ ~last'.threw
        /\ layers' = [layers EXCEPT ![currentLayer + 1].tiles =
              toolTiles(@, selectedTool, selectedTile, last'.a, last'.b, mapSize)]]_vars

\* a recursive fill that took three cells or more and left a cell of
\* another value
C27_Witness ==
  /\ last.op = "applyTool"
  /\ selectedTool = "fill"
  /\ Cardinality(CellsHolding(ActiveTiles, encodeTile(selectedTile))) >= 3
  /\ \E c \in Cells(ActiveTiles) :
       ActiveTiles[c.y][c.x] \notin {NULL, encodeTile(selectedTile)}

\* a removeLayer step that takes the layer at a valid index off a stack of
\* two layers or more with a valid active index
RemovesLayer ==
  /\ last'.op = "removeLayer"
  /\ Len(layers) >= 2
  /\ ValidIndex(last'.a, layers)
  /\ ValidIndex(currentLayer, layers)

ActiveId(ls, index) == ls[index + 1].id

\* C28 as stated: removing a layer other than the active one keeps the same
\* layer (by id) active.
C28_SameLayerActive ==
  [][RemovesLayer /\ last'.a # currentLayer =>
       ActiveId(layers', currentLayer') = ActiveId(layers, currentLayer)]_vars

\* C28 as amended: removing a layer above the active one keeps the same
\* layer active; removing a layer below it keeps the active index, cut to
\* the last index, so the same layer stays active exactly when it was the
\* last one.
C28_RemoveAboveOrBelow ==
  [][RemovesLayer =>
       /\ last'.a > currentLayer =>
            /\ currentLayer' = currentLayer
            /\ ActiveId(layers', currentLayer') = ActiveId(layers, currentLayer)
       /\ last'.a < currentLayer =>
            /\ currentLayer' = Min(currentLayer, Len(layers) - 2)
            /\ (ActiveId(layers', currentLayer') = ActiveId(layers, currentLayer))
                 <=> (currentLayer = Len(layers) - 1)]_vars

\* the layer below the active middle layer of three was removed: the top
\* layer is active now
C28_Witness ==
  /\ last.op = "removeLayer"
  /\ last.a = 0
  /\ Len(layers) = 2
  /\ currentLayer = 1
  /\ layers[1].id = 2
  /\ layers[2].id = 3

\* C29: after any sequence of setSelectedTile, setMultiTileSelection and
\* setSelectedTileset, selectedTile is the first non-null tile of
\* multiTileSelection.tiles in row-major order, or null when the block holds
\* no tile.
C29_SelectedIsFirstOfBlock ==
  LET tiles == multiTileSelection.tiles
      held == {p \in {<<r, c>> : r \in 1..Len(tiles), c \in 1..Len(tiles[1])} :
                 tiles[p[1]][p[2]] # NoTile}
  IN  IF held = {}
      THEN selectedTile = NoTile
      ELSE \E p \in held :
             /\ selectedTile = tiles[p[1]][p[2]]
             /\ \A q \in held : q[1] > p[1] \/ (q[1] = p[1] /\ q[2] >= p[2])

(***************************************************************************)
(* Termination of the two fills                                            *)
(***************************************************************************)
\* C6: the fill of applyToolAtPosition terminates for every grid and
\* in-bounds target: the work queue empties and the loop is left, and no
\* cell is assigned the replacement value more than once.
C6_FillTerminates ==
  /\ <>[](pc # "loop")
  /\ [](\A c \in DOMAIN writes : writes[c] <= 1)

\* a finished fill that assigned three cells or more and skipped another
C6_Witness ==
  /\ pc = "done"
  /\ queue = <<>>
  /\ Cardinality({c \in DOMAIN writes : writes[c] = 1}) >= 3
  /\ \E c \in DOMAIN writes : writes[c] = 0

\* C8: the recursive floodFill of applyTool never fills a cell twice and
\* returns, also when the target cell already holds the replacement value.
C8_FloodFillNoRevisit ==
  /\ pc # "overflow"
  /\ \A c \in DOMAIN writes : writes[c] <= 1

====
